---- MODULE Spec2Model ----
(***************************************************************************)
(* Draft simulation engine of fantasy-baseball-helper                      *)
(* (backend/simulation): the roster state machine, the pick-by-pick snake  *)
(* draft of simulate_draft, and the batch drivers that call it.            *)
(*                                                                         *)
(* Floats are fixed-point integers: a value v of the program is the        *)
(* integer v * Unit.  Strings split on "/" are kept as the sequence of     *)
(* their parts.  Optional[float] ADP uses the sentinel AdpNone for None.   *)
(***************************************************************************)
EXTENDS Integers, Sequences, FiniteSets, TLC

\* ------------------------------------------------------------------------
\* player_pool.py: categories, roster slots, position table
\* ------------------------------------------------------------------------

Unit == 100

AdpNone == -1

HITTING_CAT_KEYS == <<"zscore_r", "zscore_tb", "zscore_rbi", "zscore_sb", "zscore_obp">>

PITCHING_CAT_KEYS == <<"zscore_k", "zscore_qs", "zscore_era", "zscore_whip", "zscore_svhd">>

ALL_CAT_KEYS == HITTING_CAT_KEYS \o PITCHING_CAT_KEYS

Range(s) == {s[i] : i \in DOMAIN s}

CatSet == Range(ALL_CAT_KEYS)

SlotOrder == <<"C", "1B", "2B", "3B", "SS", "OF", "UTIL", "SP", "RP", "P", "BE">>

SlotNames == Range(SlotOrder)

ROSTER_SLOTS ==
    ("C" :> 1) @@ ("1B" :> 1) @@ ("2B" :> 1) @@ ("3B" :> 1) @@ ("SS" :> 1) @@
    ("OF" :> 3) @@ ("UTIL" :> 2) @@ ("SP" :> 3) @@ ("RP" :> 2) @@ ("P" :> 2) @@
    ("BE" :> 8)

RECURSIVE SumOver(_, _)
SumOver(f, S) ==
    IF S = {} THEN 0
    ELSE LET x == CHOOSE y \in S : TRUE IN f[x] + SumOver(f, S \ {x})

TOTAL_ROSTER_SIZE == SumOver(ROSTER_SLOTS, DOMAIN ROSTER_SLOTS)

POSITION_TO_SLOTS ==
    ("C" :> <<"C", "UTIL", "BE">>) @@
    ("1B" :> <<"1B", "UTIL", "BE">>) @@
    ("2B" :> <<"2B", "UTIL", "BE">>) @@
    ("3B" :> <<"3B", "UTIL", "BE">>) @@
    ("SS" :> <<"SS", "UTIL", "BE">>) @@
    ("OF" :> <<"OF", "UTIL", "BE">>) @@
    ("LF" :> <<"OF", "UTIL", "BE">>) @@
    ("CF" :> <<"OF", "UTIL", "BE">>) @@
    ("RF" :> <<"OF", "UTIL", "BE">>) @@
    ("DH" :> <<"UTIL", "BE">>) @@
    ("SP" :> <<"SP", "P", "BE">>) @@
    ("RP" :> <<"RP", "P", "BE">>) @@
    ("TWP" :> <<"UTIL", "SP", "P", "BE">>)

\* Faulty variant of ZGet: a missing key counts as 1.0
ZGetMissingAsOne(zscores, cat_key) ==
    IF cat_key \in DOMAIN zscores THEN zscores[cat_key] ELSE Unit

\* zscores.get(cat_key, 0.0)
ZGet(zscores, cat_key) ==
    IF cat_key \in DOMAIN zscores THEN zscores[cat_key] ELSE 0

\* Player.pitcher_role
pitcher_role(p) ==
    IF ZGet(p.zscores, "zscore_qs") # 0 THEN "SP"
    ELSE IF ZGet(p.zscores, "zscore_svhd") # 0 THEN "RP"
    ELSE "SP"

\* Player.get_positions (eligible_positions is held already split on "/";
\* the empty sequence stands for None and for the empty string)
get_positions(p) ==
    IF p.eligible_positions # <<>> THEN p.eligible_positions
    ELSE IF p.player_type = "pitcher" THEN <<pitcher_role(p)>>
    ELSE <<p.primary_position>>

\* a sequence, and a function, with every element evaluated once
Listed(s) == s \o <<>>

Tabled(f) == f @@ <<>>

\* ------------------------------------------------------------------------
\* roster.py: RosterState
\* ------------------------------------------------------------------------

\* RosterState.__init__: capacity = dict(ROSTER_SLOTS)
RosterInit == ROSTER_SLOTS

\* POSITION_TO_SLOTS.get(pos, [])
SlotsOfPosition(pos) ==
    IF pos \in DOMAIN POSITION_TO_SLOTS THEN POSITION_TO_SLOTS[pos] ELSE <<>>

RECURSIVE AppendUnseen(_, _)
AppendUnseen(ordered, slots) ==
    IF slots = <<>> THEN ordered
    ELSE AppendUnseen(
             IF Head(slots) \in Range(ordered) THEN ordered
             ELSE Append(ordered, Head(slots)),
             Tail(slots))

RECURSIVE SlotsOfPositions(_, _)
SlotsOfPositions(positions, ordered) ==
    IF positions = <<>> THEN ordered
    ELSE SlotsOfPositions(Tail(positions),
                          AppendUnseen(ordered, SlotsOfPosition(Head(positions))))

\* RosterState._eligible_slots_ordered
eligible_slots_ordered(p) == SlotsOfPositions(get_positions(p), <<>>)

\* self.capacity.get(slot, 0)
CapGet(capacity, slot) ==
    IF slot \in DOMAIN capacity THEN capacity[slot] ELSE 0

\* RosterState.can_add
can_add(capacity, p) ==
    \E i \in DOMAIN eligible_slots_ordered(p) :
        CapGet(capacity, eligible_slots_ordered(p)[i]) > 0

\* First eligible slot with capacity, "None" when there is none
FirstOpenSlot(capacity, p) ==
    LET slots == eligible_slots_ordered(p)
        open == {i \in DOMAIN slots : CapGet(capacity, slots[i]) > 0}
    IN IF open = {} THEN "None"
       ELSE slots[CHOOSE i \in open : \A j \in open : i <= j]

\* Faulty variant of add_player: the slot is returned, its capacity is not
\* decremented
add_player_no_decrement(capacity, p) ==
    [ret |-> FirstOpenSlot(capacity, p), capacity |-> capacity]

\* Faulty variant of add_player: the bench is charged instead of the returned
\* slot
add_player_charges_bench(capacity, p) ==
    LET slot == FirstOpenSlot(capacity, p)
    IN IF slot = "None" THEN [ret |-> "None", capacity |-> capacity]
       ELSE [ret |-> slot,
             capacity |-> [capacity EXCEPT !["BE"] = capacity["BE"] - 1]]

\* RosterState.add_player: the returned slot and the capacity after the call
add_player(capacity, p) ==
    LET slot == FirstOpenSlot(capacity, p)
    IN IF slot = "None" THEN [ret |-> "None", capacity |-> capacity]
       ELSE [ret |-> slot,
             capacity |-> [capacity EXCEPT ![slot] = capacity[slot] - 1]]

\* RosterState.has_starting_need
has_starting_need(capacity, p) ==
    \E i \in DOMAIN eligible_slots_ordered(p) :
        /\ eligible_slots_ordered(p)[i] # "BE"
        /\ CapGet(capacity, eligible_slots_ordered(p)[i]) > 0

\* RosterState.slot_scarcity: 1 / (smallest positive capacity of an eligible
\* starting slot), 0 when there is none
slot_scarcity(capacity, p) ==
    LET slots == eligible_slots_ordered(p)
        caps == {CapGet(capacity, slots[i]) :
                    i \in {j \in DOMAIN slots : slots[j] # "BE" /\ CapGet(capacity, slots[j]) > 0}}
    IN IF caps = {} THEN 0
       ELSE Unit \div (CHOOSE c \in caps : \A d \in caps : c <= d)

\* ------------------------------------------------------------------------
\* Fixed-point arithmetic
\* ------------------------------------------------------------------------

Min(a, b) == IF a <= b THEN a ELSE b

Max(a, b) == IF a >= b THEN a ELSE b

Clamp(x, lo, hi) == Max(lo, Min(hi, x))

Abs(x) == IF x < 0 THEN 0 - x ELSE x

\* product of two fixed-point values
Mul(a, b) == (a * b) \div Unit

RECURSIVE ISqrtIn(_, _, _)
ISqrtIn(lo, hi, x) ==
    IF lo >= hi THEN lo
    ELSE LET mid == (lo + hi + 1) \div 2
         IN IF mid * mid <= x THEN ISqrtIn(mid, hi, x) ELSE ISqrtIn(lo, mid - 1, x)

\* floor of the square root of a natural number
ISqrt(x) == ISqrtIn(0, Min(x, 46340), x)

RECURSIVE SeqSumTo(_, _)
SeqSumTo(s, n) == IF n = 0 THEN 0 ELSE s[n] + SeqSumTo(s, n - 1)

SeqSum(s) == SeqSumTo(s, Len(s))

RECURSIVE SeqMax(_, _)
SeqMax(s, default) ==
    IF s = <<>> THEN default
    ELSE LET m == SeqMax(Tail(s), default)
         IN IF Tail(s) = <<>> THEN Head(s) ELSE Max(Head(s), m)

\* list.sort(key=...): the indices of keys in ascending order of key, equal
\* keys in their original order (the sort of the program is stable, also
\* with reverse=True, which is the ascending sort of the negated keys)
SortRank(i, keys) ==
    Cardinality({j \in DOMAIN keys : keys[j] < keys[i] \/ (keys[j] = keys[i] /\ j < i)}) + 1

SortIdx(keys) ==
    LET k == Listed(keys)
        rank == Listed([i \in DOMAIN k |-> SortRank(i, k)])
    IN Listed([r \in DOMAIN k |-> CHOOSE i \in DOMAIN k : rank[i] = r])

\* ------------------------------------------------------------------------
\* scoring_model.py: ranks, win probability, availability
\* ------------------------------------------------------------------------

\* _normal_cdf: the rational approximation of the program, tabulated at
\* steps of 0.5 and interpolated linearly (values in units of 1/Unit)
CdfTable == <<50, 69, 84, 93, 98, 99, 100, 100, 100>>

CdfHalf(ax) ==
    IF ax >= 400 THEN Unit
    ELSE LET k == ax \div 50
             f == ax % 50
         IN CdfTable[k + 1] + ((CdfTable[k + 2] - CdfTable[k + 1]) * f) \div 50

normal_cdf(x) ==
    IF x < 0 - 8 * Unit THEN 0
    ELSE IF x > 8 * Unit THEN Unit
    ELSE IF x < 0 THEN Unit - CdfHalf(Abs(x))
    ELSE CdfHalf(x)

\* variable_adp_sigma
variable_adp_sigma(adp) == 10 * Unit + adp \div 10

\* compute_availability (sigma = 0 is a division by zero in the program)
compute_availability(espn_adp, current_pick, picks_until_mine, sigma) ==
    LET target_pick == (current_pick + picks_until_mine) * Unit
        z == ((target_pick - espn_adp) * Unit) \div sigma
    IN Clamp(Unit - normal_cdf(z), 0, Unit)

\* Faulty variant of win_prob_from_rank: the divisor is num_teams
win_prob_from_rank_over_teams(rank2, num_teams) ==
    IF num_teams <= 1 THEN Unit \div 2
    ELSE ((2 * num_teams - rank2) * Unit) \div (2 * num_teams)

\* win_prob_from_rank: rank2 is twice the rank (ranks are multiples of 1/2)
win_prob_from_rank(rank2, num_teams) ==
    IF num_teams <= 1 THEN Unit \div 2
    ELSE ((2 * num_teams - rank2) * Unit) \div (2 * (num_teams - 1))

\* Faulty variant of compute_rank: a tie counts as a team above
compute_rank_ties_above(my_value, other_totals) ==
    LET teams_above == Cardinality({i \in DOMAIN other_totals : other_totals[i] >= my_value})
    IN 2 * teams_above + 2

\* compute_rank, doubled: 2 * (teams_above + 1 + tied_teams / 2)
compute_rank(my_value, other_totals) ==
    LET teams_above == Cardinality({i \in DOMAIN other_totals : other_totals[i] > my_value})
        tied_teams == Cardinality({i \in DOMAIN other_totals : other_totals[i] = my_value})
    IN 2 * teams_above + 2 + tied_teams

\* standings_confidence
standings_confidence(total_picks_made, config) ==
    LET span == config.CONFIDENCE_END - config.CONFIDENCE_START
    IN IF span <= 0 THEN Unit
       ELSE Clamp(((total_picks_made - config.CONFIDENCE_START) * Unit) \div span, 0, Unit)

SetMin(S) == CHOOSE x \in S : \A y \in S : x <= y

SetMax(S) == CHOOSE x \in S : \A y \in S : x >= y

\* analyze_category_standings: one CategoryStanding per category
analyze_category_standings(my_totals, other_team_totals, num_teams) ==
    Listed([i \in DOMAIN ALL_CAT_KEYS |->
        LET cat_key == ALL_CAT_KEYS[i]
            my_val == ZGet(my_totals, cat_key)
            other_vals == other_team_totals[cat_key]
            rank2 == compute_rank(my_val, other_vals)
            above == {v \in Range(other_vals) : v > my_val}
            below == {v \in Range(other_vals) : v < my_val}
        IN [cat_key |-> cat_key,
            my_total |-> my_val,
            my_rank |-> rank2,
            win_prob |-> win_prob_from_rank(rank2, num_teams),
            gap_above |-> IF above = {} THEN 0 ELSE SetMin(above) - my_val,
            gap_below |-> IF below = {} THEN 0 ELSE my_val - SetMax(below),
            strategy |-> "neutral"]])

\* detect_strategy: the first classification of one category
ClassifyStanding(s, num_teams, playoff_spots) ==
    LET high_ratio == 20 * playoff_spots >= 11 * num_teams
        playoff_ratio == (playoff_spots * Unit) \div num_teams
        punt_gap == 3 * Unit + ((playoff_ratio - 40) * 750) \div Unit
        punt_rank_floor == IF high_ratio THEN num_teams ELSE num_teams - 1
        target_low == IF high_ratio THEN 3 ELSE 4
        target_high == IF high_ratio THEN 8 ELSE 7
    IN IF s.my_rank <= 2 * 2 /\ s.gap_below >= Unit THEN "lock"
       ELSE IF s.my_rank >= 2 * punt_rank_floor /\ s.gap_above >= punt_gap THEN "punt"
       ELSE IF 2 * target_low <= s.my_rank /\ s.my_rank <= 2 * target_high THEN "target"
       ELSE "neutral"

\* Faulty variant of PuntKeep: the first two punt categories in category
\* order are kept, whatever their rank
PuntKeepFirstTwo(tagged) ==
    LET punt_idx == SelectSeq([i \in DOMAIN tagged |-> i],
                              LAMBDA i : tagged[i].strategy = "punt")
    IN {punt_idx[j] : j \in {k \in DOMAIN punt_idx : k <= 2}}

\* the punt categories kept by the cap: punt_cats sorted by rank, worst first
\* (stable), the first two of them
PuntKeep(tagged) ==
    LET punt_idx == SelectSeq([i \in DOMAIN tagged |-> i],
                              LAMBDA i : tagged[i].strategy = "punt")
        order == SortIdx([j \in DOMAIN punt_idx |-> 0 - tagged[punt_idx[j]].my_rank])
    IN {punt_idx[order[j]] : j \in {k \in DOMAIN order : k <= 2}}

\* detect_strategy
detect_strategy(standings, my_pick_count, num_teams, playoff_spots) ==
    IF my_pick_count < 6 THEN standings
    ELSE LET tagged == Listed([i \in DOMAIN standings |->
                           [standings[i] EXCEPT
                              !.strategy = ClassifyStanding(standings[i], num_teams, playoff_spots)]])
             keep == PuntKeep(tagged)
         IN Listed([i \in DOMAIN tagged |->
                IF tagged[i].strategy = "punt" /\ i \notin keep
                THEN [tagged[i] EXCEPT !.strategy = "neutral"]
                ELSE tagged[i]])

\* ------------------------------------------------------------------------
\* scoring_model.py: marginal category wins
\* ------------------------------------------------------------------------

\* strategies.get(cat_key, "neutral")
StrategyGet(strategies, cat_key) ==
    IF cat_key \in DOMAIN strategies THEN strategies[cat_key] ELSE "neutral"

\* gap_closed ** 1.5
Pow15(x) == Mul(x, ISqrt(x * Unit))

\* Faulty variant of FractionalCredit: a positive value that moves no rank is
\* credited in full also when no team is above, spread over all teams
FractionalCreditAlways(marginal_win, my_val, player_val, other_vals, num_teams) ==
    IF marginal_win = 0 /\ player_val > 0
    THEN (55 * Unit) \div (Unit * num_teams)
    ELSE marginal_win

\* compute_mcw: the fractional credit of lines 208-217, given marginal_win
FractionalCredit(marginal_win, my_val, player_val, other_vals, num_teams) ==
    IF marginal_win = 0 /\ player_val > 0
    THEN LET new_val == my_val + player_val
             above_before == {i \in DOMAIN other_vals : other_vals[i] > my_val}
             above_after == {i \in DOMAIN other_vals : other_vals[i] > new_val}
         IN IF above_before # {} /\ Cardinality(above_after) = Cardinality(above_before)
            THEN LET closest_above == SetMin({other_vals[i] : i \in above_before})
                     gap_before == closest_above - my_val
                     gap_after == closest_above - new_val
                 IN IF gap_before > 0
                    THEN LET gap_closed == ((gap_before - gap_after) * Unit) \div gap_before
                         IN (Pow15(gap_closed) * 55) \div (Unit * (num_teams - 1))
                    ELSE marginal_win
            ELSE marginal_win
    ELSE marginal_win

\* compute_mcw: what one category adds to mcw (config is always given by
\* full_player_score)
McwOfCategory(cat_key, player_zscores, my_totals, other_team_totals, strategies, num_teams, config) ==
    LET strategy == StrategyGet(strategies, cat_key)
        my_val == ZGet(my_totals, cat_key)
        player_val == ZGet(player_zscores, cat_key)
        other_vals == IF cat_key \in DOMAIN other_team_totals
                      THEN other_team_totals[cat_key] ELSE <<>>
    IN IF strategy = "punt" THEN 0
       ELSE IF player_val = 0 THEN 0
       ELSE LET rank_before == compute_rank(my_val, other_vals)
                rank_after == compute_rank(my_val + player_val, other_vals)
                win_before == win_prob_from_rank(rank_before, num_teams)
                win_after == win_prob_from_rank(rank_after, num_teams)
                credited == FractionalCredit(win_after - win_before, my_val,
                                             player_val, other_vals, num_teams)
            IN IF strategy = "lock" THEN Mul(credited, config.LOCK_MCW_WEIGHT)
               ELSE IF strategy = "target" THEN Mul(credited, config.TARGET_MCW_WEIGHT)
               ELSE credited

\* compute_mcw
compute_mcw(player_zscores, my_totals, other_team_totals, strategies, num_teams, config) ==
    SeqSum([i \in DOMAIN ALL_CAT_KEYS |->
               McwOfCategory(ALL_CAT_KEYS[i], player_zscores, my_totals,
                             other_team_totals, strategies, num_teams, config)])

\* compute_draft_score
compute_draft_score(mcw, vona, urgency, roster_fit, confidence, draft_progress, config) ==
    Mul(Mul(mcw, config.MCW_WEIGHT), confidence)
    + Mul(vona, config.VONA_WEIGHT_MCW)
    + Mul(urgency, config.URGENCY_WEIGHT_MCW)
    + Mul(roster_fit, draft_progress)

\* ------------------------------------------------------------------------
\* scoring_model.py: normalization, VONA
\* ------------------------------------------------------------------------

\* compute_cat_stats: CatStats(mean, stdev) of one category
CatStatsOf(cat_key, available_players) ==
    LET is_hitter_cat == cat_key \in Range(HITTING_CAT_KEYS)
        relevant == SelectSeq(available_players,
                              LAMBDA p : (p.player_type = "hitter") = is_hitter_cat)
        values == Listed([i \in DOMAIN relevant |-> ZGet(relevant[i].zscores, cat_key)])
        n == IF Len(values) = 0 THEN 1 ELSE Len(values)
        mean == SeqSum(values) \div n
        variance == SeqSum([i \in DOMAIN values |->
                               (values[i] - mean) * (values[i] - mean)]) \div n
    IN [mean |-> mean, stdev |-> IF variance > 0 THEN ISqrt(variance) ELSE Unit]

\* compute_cat_stats
compute_cat_stats(available_players) ==
    Tabled([cat_key \in CatSet |-> CatStatsOf(cat_key, available_players)])

\* get_normalized_value
get_normalized_value(p, cat_stats) ==
    LET cats == IF p.player_type = "pitcher" THEN PITCHING_CAT_KEYS ELSE HITTING_CAT_KEYS
    IN SeqSum([i \in DOMAIN cats |->
                  ((ZGet(p.zscores, cats[i]) - cat_stats[cats[i]].mean) * Unit)
                      \div cat_stats[cats[i]].stdev])

\* p.espn_adp if p.espn_adp is not None else 999.0
AdpOr999(p) == IF p.espn_adp # AdpNone THEN p.espn_adp ELSE 999 * Unit

\* build_available_by_position: the list of one position, (mlb_id, nv, adp)
\* sorted by nv, largest first
AvailableAtPosition(pos, available, cat_stats) ==
    LET at == SelectSeq(available, LAMBDA p : pos \in Range(get_positions(p)))
        entries == Listed([i \in DOMAIN at |->
                              [mlb_id |-> at[i].mlb_id,
                               nv |-> get_normalized_value(at[i], cat_stats),
                               adp |-> AdpOr999(at[i])]])
        order == SortIdx([i \in DOMAIN entries |-> 0 - entries[i].nv])
    IN Listed([j \in DOMAIN order |-> entries[order[j]]])

\* build_available_by_position
build_available_by_position(available, cat_stats) ==
    LET positions == UNION {Range(get_positions(available[i])) : i \in DOMAIN available}
    IN Tabled([pos \in positions |-> AvailableAtPosition(pos, available, cat_stats)])

\* available_by_position.get(pos, [])
PosPlayers(available_by_position, pos) ==
    IF pos \in DOMAIN available_by_position THEN available_by_position[pos] ELSE <<>>

\* _vona_at_position
vona_at_position(mlb_id, pos, available_by_position) ==
    LET pos_players == PosPlayers(available_by_position, pos)
        found == {i \in DOMAIN pos_players : pos_players[i].mlb_id = mlb_id}
    IN IF found = {} THEN 0
       ELSE LET my_idx == SetMin(found)
            IN IF my_idx < Len(pos_players)
               THEN pos_players[my_idx].nv - pos_players[my_idx + 1].nv
               ELSE pos_players[my_idx].nv

\* the positions VONA looks at
VonaPositions(p) ==
    IF p.player_type = "pitcher" THEN <<pitcher_role(p)>> ELSE get_positions(p)

\* compute_vona
compute_vona(p, available_by_position) ==
    SeqMax([i \in DOMAIN VonaPositions(p) |->
               vona_at_position(p.mlb_id, VonaPositions(p)[i], available_by_position)], 0)

\* _window_vona_at_position: sum of value * P(first still available), over
\* the alternatives from index i on; gone is P(all better ones are gone)
RECURSIVE ExpectedReplacement(_, _, _)
ExpectedReplacement(alternatives, i, gone) ==
    IF i > Len(alternatives) THEN 0
    ELSE Mul(alternatives[i].nv, Mul(gone, alternatives[i].p_avail))
         + ExpectedReplacement(alternatives, i + 1,
                               Mul(gone, Unit - alternatives[i].p_avail))

\* _window_vona_at_position
window_vona_at_position(mlb_id, pos, available_by_position, current_pick, picks_until_mine, adp_sigma) ==
    LET pos_players == PosPlayers(available_by_position, pos)
        found == {i \in DOMAIN pos_players : pos_players[i].mlb_id = mlb_id}
        others == SelectSeq(pos_players, LAMBDA e : e.mlb_id # mlb_id)
        alternatives ==
            [i \in DOMAIN others |->
                [nv |-> others[i].nv,
                 p_avail |-> compute_availability(
                                 others[i].adp, current_pick, picks_until_mine,
                                 IF adp_sigma < 0 THEN variable_adp_sigma(others[i].adp)
                                 ELSE adp_sigma)]]
    IN IF found = {} THEN 0
       ELSE IF Len(others) = 0 THEN pos_players[SetMin(found)].nv
       ELSE pos_players[SetMin(found)].nv - ExpectedReplacement(alternatives, 1, Unit)

\* compute_window_vona
compute_window_vona(p, available_by_position, current_pick, picks_until_mine, adp_sigma) ==
    SeqMax([i \in DOMAIN VonaPositions(p) |->
               window_vona_at_position(p.mlb_id, VonaPositions(p)[i], available_by_position,
                                       current_pick, picks_until_mine, adp_sigma)], 0)

\* _normalize_position
normalize_position(pos) == IF pos \in {"LF", "CF", "RF"} THEN "OF" ELSE pos

\* POSITION_DEMAND_SLOTS
DemandPositions == {"C", "1B", "2B", "3B", "SS", "OF", "SP", "RP"}

PositionDemandSlots(pos) ==
    CASE pos = "OF" -> 3
      [] pos = "SP" -> 3
      [] pos = "RP" -> 2
      [] OTHER -> 1

\* compute_replacement_levels lines 296-314: the positions under which a
\* player's normalized value is listed, one entry per raw position
ListedPositions(p) ==
    IF p.player_type = "pitcher" THEN <<pitcher_role(p)>>
    ELSE [j \in DOMAIN get_positions(p) |-> normalize_position(get_positions(p)[j])]

\* the entries of by_pos[pos], as (player, raw position) index pairs
ByPos(available_players, pos) ==
    UNION {{<<i, j>> : j \in {k \in DOMAIN ListedPositions(available_players[i]) :
                                  ListedPositions(available_players[i])[k] = pos}} :
              i \in DOMAIN available_players}

\* compute_replacement_levels: per position the normalized value at rank
\* slots * num_teams of the listed values, the lowest when fewer are listed,
\* 0 when none is
compute_replacement_levels(available_players, cat_stats, num_teams) ==
    [pos \in DemandPositions |->
        LET entries == ByPos(available_players, pos)
            nv(e) == get_normalized_value(available_players[e[1]], cat_stats)
            idx == Min(PositionDemandSlots(pos) * num_teams - 1, Cardinality(entries) - 1)
        IN IF idx < 0 THEN 0
           ELSE LET at == CHOOSE e \in entries :
                              /\ Cardinality({f \in entries : nv(f) > nv(e)}) <= idx
                              /\ idx < Cardinality({f \in entries : nv(f) >= nv(e)})
                IN nv(at)]

\* compute_surplus_value: max over the eligible positions that have a
\* replacement level of (normalized value - replacement level)
compute_surplus_value(p, normalized_value, replacement_levels) ==
    LET positions == IF p.player_type = "pitcher" THEN <<pitcher_role(p)>>
                     ELSE [i \in DOMAIN get_positions(p) |->
                              normalize_position(get_positions(p)[i])]
        known == {i \in DOMAIN positions : positions[i] \in DOMAIN replacement_levels}
    IN IF known = {} THEN normalized_value
       ELSE SetMax({normalized_value - replacement_levels[positions[i]] : i \in known})

\* ------------------------------------------------------------------------
\* scoring_model.py: full_player_score
\* ------------------------------------------------------------------------

\* the optional argument replacement_levels left at its default None
NoReplacementLevels == [given |-> FALSE, levels |-> <<>>]

\* lines 541-545: the availability discount
AvailabilityDiscount(score, p, current_pick, picks_until_mine, config) ==
    IF ~config.USE_WINDOW_VONA /\ p.espn_adp # AdpNone
    THEN LET avail_sigma == IF config.USE_VARIABLE_SIGMA
                            THEN variable_adp_sigma(p.espn_adp) ELSE config.ADP_SIGMA
             avail == compute_availability(p.espn_adp, current_pick, picks_until_mine, avail_sigma)
         IN Mul(score, Unit - Mul(avail, config.AVAILABILITY_DISCOUNT))
    ELSE score

\* lines 547-556: the bench penalty
BenchPenalty(score, p, has_need, draft_progress, bench_pitcher_count, config) ==
    IF has_need = 0 /\ draft_progress > 15
    THEN IF p.player_type = "pitcher"
         THEN LET saturation == Min(Unit, (bench_pitcher_count * Unit) \div 3)
                  floor == 65 - Mul(saturation, 30)
                  scale == 35 + Mul(saturation, 28)
              IN Mul(score, Max(floor, Unit - Mul(draft_progress, scale)))
         ELSE Mul(score, Max(35, Unit - Mul(draft_progress, config.BENCH_PENALTY_RATE)))
    ELSE score

\* lines 503-506: the best-player-available term of the score
BpaValue(p, cat_stats, config, replacement_levels) ==
    IF config.USE_SURPLUS_VALUE /\ replacement_levels.given
    THEN compute_surplus_value(p, get_normalized_value(p, cat_stats),
                               replacement_levels.levels)
    ELSE get_normalized_value(p, cat_stats)

\* lines 501-539: the score before the post-score adjustments
BlendedScore(p, my_totals, other_team_totals, strategies, cat_stats, available_by_position, has_need, current_pick, picks_until_mine, total_picks_made, my_pick_count, config, replacement_levels) ==
    LET normalized_value == get_normalized_value(p, cat_stats)
        bpa_value == BpaValue(p, cat_stats, config, replacement_levels)
        effective_sigma == IF config.USE_VARIABLE_SIGMA THEN 0 - Unit ELSE config.ADP_SIGMA
        vona == IF config.USE_WINDOW_VONA
                THEN compute_window_vona(p, available_by_position, current_pick,
                                         picks_until_mine, effective_sigma)
                ELSE compute_vona(p, available_by_position)
        urgency == IF p.espn_adp # AdpNone
                   THEN Clamp(picks_until_mine * Unit - (p.espn_adp - current_pick * Unit),
                              0, 15 * Unit)
                   ELSE 0
        roster_fit == has_need
        confidence == standings_confidence(total_picks_made, config)
        draft_progress == Min(Unit, (my_pick_count * Unit) \div 25)
        has_mcw == total_picks_made >= 2 * config.NUM_TEAMS
        bpa_urgency_weight == IF config.SCALE_BPA_URGENCY
                              THEN Mul(config.URGENCY_WEIGHT_BPA, draft_progress)
                              ELSE config.URGENCY_WEIGHT_BPA
        raw_score == bpa_value + Mul(vona, config.VONA_WEIGHT_BPA)
                     + Mul(urgency, bpa_urgency_weight)
    IN IF has_mcw /\ confidence > 0
       THEN LET mcw == compute_mcw(p.zscores, my_totals, other_team_totals,
                                   strategies, config.NUM_TEAMS, config)
                score == compute_draft_score(mcw, vona, urgency, roster_fit,
                                             confidence, draft_progress, config)
            IN Mul(score, confidence) + Mul(raw_score, Unit - confidence)
       ELSE raw_score

\* full_player_score
full_player_score(p, my_totals, other_team_totals, strategies, cat_stats, available_by_position, has_need, current_pick, picks_until_mine, total_picks_made, my_pick_count, config, bench_pitcher_count, replacement_levels) ==
    LET blended == BlendedScore(p, my_totals, other_team_totals, strategies, cat_stats,
                                available_by_position, has_need, current_pick,
                                picks_until_mine, total_picks_made, my_pick_count,
                                config, replacement_levels)
        discounted == AvailabilityDiscount(blended, p, current_pick, picks_until_mine, config)
        draft_progress == Min(Unit, (my_pick_count * Unit) \div 25)
    IN BenchPenalty(discounted, p, has_need, draft_progress, bench_pitcher_count, config)

\* ------------------------------------------------------------------------
\* random.Random: a seeded pseudo-random stream.  The generator is its seed
\* and the number of draws made so far; every draw is a function of both
\* and advances the generator by one.  The normal draw is a symmetric
\* seven-point approximation scaled by sigma.
\* ------------------------------------------------------------------------

\* random.Random(seed)
RandomSeeded(seed) == [seed |-> seed % 65537, draws |-> 0]

\* the generator after a number of draws
RngAfter(rng, draws) == [rng EXCEPT !.draws = rng.draws + draws]

\* the raw output of the draw that leaves the generator in state rng
RngOutput(rng) == (rng.seed * 7919 + rng.draws * 7907 + 13) % 65537

\* rng.gauss(0, sigma): the value of the draw that leaves the generator in rng
GaussValue(rng, sigma) == (sigma * (((RngOutput(rng) \div 7) % 7) - 3)) \div 2

\* rng.randint(0, 2**31): the value of the draw that leaves the generator in rng
RandintValue(rng) == RngOutput(rng)

\* ------------------------------------------------------------------------
\* draft_engine.py
\* ------------------------------------------------------------------------

\* the module constant imported by draft_engine.py line 10
BENCH_CONTRIBUTION == 20

\* Faulty variant of snake_order: every round ascending
snake_order_ascending(pick_index, num_teams) == pick_index % num_teams

\* snake_order
snake_order(pick_index, num_teams) ==
    LET rnd == pick_index \div num_teams
        pos == pick_index % num_teams
    IN IF rnd % 2 = 0 THEN pos ELSE num_teams - 1 - pos

\* picks_until_next_turn
picks_until_next_turn(current_pick, my_team, num_teams) ==
    LET turns == {i \in (current_pick + 1)..(num_teams * 25) :
                     snake_order(i, num_teams) = my_team}
    IN IF turns = {} THEN 999 ELSE SetMin(turns) - current_pick

\* player_by_id[mlb_id]: a dict comprehension keeps the last entry of a key
PlayerById(all_players, mlb_id) ==
    all_players[SetMax({i \in DOMAIN all_players : all_players[i].mlb_id = mlb_id})]

\* [p for p in available_list if p.mlb_id in available_set]
AvailPlayers(st) ==
    SelectSeq(st.all_players, LAMBDA p : p.mlb_id \in st.available_set)

\* simulate_draft lines 55-77: the locals of a call before its first pick
NewSim(all_players, my_slot, config, rng) ==
    [all_players |-> all_players,
     my_slot |-> my_slot,
     config |-> config,
     rng |-> rng,
     pc |-> "loop",
     pick_idx |-> 0,
     available_set |-> {all_players[i].mlb_id : i \in DOMAIN all_players},
     rosters |-> [t \in 0..(config.NUM_TEAMS - 1) |-> RosterInit],
     team_totals |-> [t \in 0..(config.NUM_TEAMS - 1) |-> [k \in CatSet |-> 0]],
     team_players |-> [t \in 0..(config.NUM_TEAMS - 1) |-> <<>>],
     team_slots |-> [t \in 0..(config.NUM_TEAMS - 1) |-> <<>>],
     my_pick_count |-> 0,
     cat_stats |-> <<>>,
     cat_stats_round |-> 0 - 1,
     my_players |-> <<>>,
     pick_order |-> <<>>,
     skipped |-> [t \in 0..(config.NUM_TEAMS - 1) |-> 0],
     last |-> [kind |-> "start", team |-> 0 - 1, mlb_id |-> 0 - 1, slot |-> "None"]]

\* lines 98-107: the other teams' totals of each category, largest first
OtherTeamTotals(st) ==
    Tabled([cat_key \in CatSet |->
        LET others == SelectSeq([i \in 1..st.config.NUM_TEAMS |-> i - 1],
                                LAMBDA t : t # st.my_slot)
            vals == Listed([i \in DOMAIN others |-> st.team_totals[others[i]][cat_key]])
            order == SortIdx([i \in DOMAIN vals |-> 0 - vals[i]])
        IN Listed([j \in DOMAIN order |-> vals[order[j]]])])

\* lines 89-93: cat_stats is recomputed when the round changed
CatStatsForPick(st) ==
    IF st.pick_idx \div st.config.NUM_TEAMS # st.cat_stats_round
    THEN compute_cat_stats(AvailPlayers(st))
    ELSE st.cat_stats

\* lines 125-138: bench_pitcher_count is not passed, its default is used
\* whatever the simulated team holds
EngineBenchPitcherCount(st) == 0

\* lines 125-138: the score of one candidate as the engine asks for it
\* (bench_pitcher_count and replacement_levels are not passed)
EngineScore(st, p, cat_stats, available_by_position, other_team_totals, strategies, pum) ==
    full_player_score(p, st.team_totals[st.my_slot], other_team_totals, strategies,
                      cat_stats, available_by_position,
                      IF has_starting_need(st.rosters[st.my_slot], p) THEN Unit ELSE 0,
                      st.pick_idx, pum, st.pick_idx, st.my_pick_count, st.config,
                      EngineBenchPitcherCount(st), NoReplacementLevels)

\* lines 95-151: the player the simulated team picks, as an index of
\* avail_players, 0 when no available player fits the roster
MyChoice(st) ==
    LET avail_players == AvailPlayers(st)
        cat_stats == CatStatsForPick(st)
        available_by_position == build_available_by_position(avail_players, cat_stats)
        other_team_totals == OtherTeamTotals(st)
        standings == detect_strategy(
                         analyze_category_standings(st.team_totals[st.my_slot],
                                                    other_team_totals, st.config.NUM_TEAMS),
                         st.my_pick_count, st.config.NUM_TEAMS, st.config.PLAYOFF_SPOTS)
        strategies == Tabled([cat_key \in CatSet |->
                                 standings[CHOOSE i \in DOMAIN standings :
                                               standings[i].cat_key = cat_key].strategy])
        pum == picks_until_next_turn(st.pick_idx, st.my_slot, st.config.NUM_TEAMS)
        fits == {i \in DOMAIN avail_players : can_add(st.rosters[st.my_slot], avail_players[i])}
        score == Tabled([i \in fits |->
                            EngineScore(st, avail_players[i], cat_stats, available_by_position,
                                        other_team_totals, strategies, pum)])
    IN IF fits = {} THEN 0
       ELSE CHOOSE i \in fits :
                \A j \in fits : score[j] < score[i] \/ (score[j] = score[i] /\ i <= j)

\* Faulty variant of opponent_pick: the candidates are ordered by their ADP,
\* the noise drawn for them is not added
opponent_pick_without_noise(avail_players, roster, rng, adp_sigma) ==
    LET candidates == SortIdx(Listed([i \in DOMAIN avail_players |->
                                         AdpOr999(avail_players[i])]))
        fits == {j \in DOMAIN candidates : can_add(roster, avail_players[candidates[j]])}
    IN [rng |-> RngAfter(rng, Len(avail_players)),
        chosen |-> IF fits # {} THEN candidates[SetMin(fits)]
                   ELSE IF candidates # <<>> THEN candidates[1]
                   ELSE 0]

\* _opponent_pick: the chosen player as an index of the available players
\* (0 for None) and the generator state after one draw per candidate
opponent_pick(avail_players, roster, rng, adp_sigma) ==
    LET noisy_adp == Listed([i \in DOMAIN avail_players |->
                                AdpOr999(avail_players[i]) + GaussValue(RngAfter(rng, i), adp_sigma)])
        candidates == SortIdx(noisy_adp)
        fits == {j \in DOMAIN candidates : can_add(roster, avail_players[candidates[j]])}
    IN [rng |-> RngAfter(rng, Len(avail_players)),
        chosen |-> IF fits # {} THEN candidates[SetMin(fits)]
                   ELSE IF candidates # <<>> THEN candidates[1]
                   ELSE 0]

\* the weight of a pick in the team totals (line 170)
PickWeight(assigned_slot, chosen, config) ==
    IF assigned_slot = "BE" THEN BENCH_CONTRIBUTION ELSE Unit

\* Faulty variant of DiscardChosen: the drafted player stays available
KeepChosen(available_set, mlb_id) == available_set

\* available_set.discard(chosen.mlb_id) (line 168)
DiscardChosen(available_set, mlb_id) == available_set \ {mlb_id}

\* Faulty variant of InputPlayersAfterPick: available_list aliases the list
\* passed in and the drafted player is removed from it
InputPlayersWithoutChosen(all_players, chosen) ==
    SelectSeq(all_players, LAMBDA q : q.mlb_id # chosen.mlb_id)

\* the list passed in after a pick: available_list is a copy of it (line 62)
\* and a pick takes the player out of available_set only (line 168)
InputPlayersAfterPick(all_players, chosen) == all_players

\* Faulty variants of NextPickIdx: the index is not advanced; an index is
\* jumped over
SamePickIdx(pick_idx) == pick_idx

JumpPickIdx(pick_idx) == pick_idx + 2

\* for pick_idx in range(total_picks): the index of the next iteration
NextPickIdx(pick_idx) == pick_idx + 1

\* lines 168-173, given what add_player returned and the weight of the pick
Assigned(st, team_idx, chosen, added, weight) ==
    [st EXCEPT
       !.all_players = InputPlayersAfterPick(st.all_players, chosen),
       !.available_set = DiscardChosen(st.available_set, chosen.mlb_id),
       !.rosters[team_idx] = added.capacity,
       !.team_totals[team_idx] =
           [k \in CatSet |-> st.team_totals[team_idx][k] + Mul(ZGet(chosen.zscores, k), weight)],
       !.team_players[team_idx] = Append(st.team_players[team_idx], chosen.mlb_id),
       !.team_slots[team_idx] = Append(st.team_slots[team_idx], added.ret),
       !.last = [kind |-> "pick", team |-> team_idx, mlb_id |-> chosen.mlb_id,
                 slot |-> added.ret],
       !.pick_idx = NextPickIdx(st.pick_idx)]

\* line 169: assigned_slot = rosters[team_idx].add_player(chosen)
AddChosen(st, team_idx, chosen, added) ==
    Assigned(st, team_idx, chosen, added, PickWeight(added.ret, chosen, st.config))

\* lines 167-173: the state update after a pick of team_idx
UpdateState(st, team_idx, chosen) ==
    AddChosen(st, team_idx, chosen, add_player(st.rosters[team_idx], chosen))

\* lines 153-156 and 167-173: the simulated team takes chosen
MyPick(refreshed, chosen) ==
    UpdateState([refreshed EXCEPT
                   !.my_pick_count = refreshed.my_pick_count + 1,
                   !.my_players = Append(refreshed.my_players, chosen),
                   !.pick_order = Append(refreshed.pick_order, chosen.mlb_id)],
                refreshed.my_slot, chosen)

\* lines 150-156: continue when there is no best_player, else the pick
MyPickOrSkip(refreshed, chosen_idx) ==
    IF chosen_idx = 0
    THEN [refreshed EXCEPT
            !.pick_idx = NextPickIdx(refreshed.pick_idx),
            !.skipped[refreshed.my_slot] = refreshed.skipped[refreshed.my_slot] + 1,
            !.last = [kind |-> "skip", team |-> refreshed.my_slot, mlb_id |-> 0 - 1,
                      slot |-> "None"]]
    ELSE MyPick(refreshed, AvailPlayers(refreshed)[chosen_idx])

\* lines 86-156: the simulated team's turn
MyTurn(st) ==
    MyPickOrSkip([st EXCEPT !.cat_stats = CatStatsForPick(st),
                            !.cat_stats_round = st.pick_idx \div st.config.NUM_TEAMS],
                 MyChoice(st))

\* lines 164-173: continue when _opponent_pick returned None, else the pick
OpponentPickOrSkip(st, team_idx, avail_players, picked) ==
    IF picked.chosen = 0
    THEN [st EXCEPT
            !.rng = picked.rng,
            !.pick_idx = NextPickIdx(st.pick_idx),
            !.skipped[team_idx] = st.skipped[team_idx] + 1,
            !.last = [kind |-> "skip", team |-> team_idx, mlb_id |-> 0 - 1,
                      slot |-> "None"]]
    ELSE UpdateState([st EXCEPT !.rng = picked.rng], team_idx,
                     PlayerById(st.all_players, avail_players[picked.chosen].mlb_id))

\* lines 160-163: the call of _opponent_pick on the available players
OpponentTurnOver(st, team_idx, avail_players) ==
    OpponentPickOrSkip(st, team_idx, avail_players,
                       opponent_pick(avail_players, st.rosters[team_idx], st.rng,
                                     st.config.ADP_SIGMA))

\* lines 158-165: an opponent's turn
OpponentTurn(st, team_idx) == OpponentTurnOver(st, team_idx, AvailPlayers(st))

\* the end of the loop: result.all_team_totals = team_totals; return result
Returned(st, why) == [st EXCEPT !.pc = "returned", !.last.kind = why]

\* lines 79-176: one iteration of the loop over pick_idx, or its end
LoopBody(st) ==
    IF st.pick_idx >= st.config.NUM_TEAMS * st.config.NUM_ROUNDS
    THEN Returned(st, "exhausted")
    ELSE IF st.available_set = {} THEN Returned(st, "break")
    ELSE IF snake_order(st.pick_idx, st.config.NUM_TEAMS) = st.my_slot THEN MyTurn(st)
    ELSE OpponentTurn(st, snake_order(st.pick_idx, st.config.NUM_TEAMS))

\* DraftResult
DraftResult(st) ==
    [my_slot |-> st.my_slot,
     my_players |-> st.my_players,
     all_team_totals |-> st.team_totals,
     pick_order |-> st.pick_order]

RECURSIVE RunToReturn(_)
RunToReturn(st) == IF st.pc = "returned" THEN st ELSE RunToReturn(LoopBody(st))

\* simulate_draft, as one call
simulate_draft(all_players, my_slot, config, rng) ==
    DraftResult(RunToReturn(NewSim(all_players, my_slot, config, rng)))

\* ------------------------------------------------------------------------
\* evaluate.py
\* ------------------------------------------------------------------------

\* lines 19-24: the other teams' totals of a category, largest first
EvalOtherVals(result, num_teams, cat_key) ==
    LET others == SelectSeq([i \in 1..num_teams |-> i - 1], LAMBDA t : t # result.my_slot)
        vals == Listed([i \in DOMAIN others |-> result.all_team_totals[others[i]][cat_key]])
        order == SortIdx([i \in DOMAIN vals |-> 0 - vals[i]])
    IN Listed([j \in DOMAIN order |-> vals[order[j]]])

\* lines 17-26: cat_win_probs
EvalCatWinProbs(result, num_teams) ==
    Tabled([cat_key \in CatSet |->
        win_prob_from_rank(
            compute_rank(result.all_team_totals[result.my_slot][cat_key],
                         EvalOtherVals(result, num_teams, cat_key)),
            num_teams)])

\* the categories tagged punt in a list of standings
PuntTagged(standings) == {i \in DOMAIN standings : standings[i].strategy = "punt"}

\* the categories the draft-time model tags punt on the final totals
FinalPunts(result, num_teams, playoff_spots) ==
    LET other_team_totals == Tabled([k \in CatSet |-> EvalOtherVals(result, num_teams, k)])
        standings == detect_strategy(
                         analyze_category_standings(result.all_team_totals[result.my_slot],
                                                    other_team_totals, num_teams),
                         Len(result.my_players), num_teams, playoff_spots)
    IN {standings[i].cat_key : i \in PuntTagged(standings)}

\* Faulty variant of evaluate_draft: the categories the draft-time model tags
\* punt (with one playoff spot) are left out of expected_wins
evaluate_draft_skipping_punts(result, num_teams) ==
    LET cat_win_probs == EvalCatWinProbs(result, num_teams)
        hitters == SelectSeq(result.my_players, LAMBDA p : p.player_type = "hitter")
        pitchers == {i \in DOMAIN result.my_players : result.my_players[i].player_type = "pitcher"}
    IN [expected_wins |-> SumOver(cat_win_probs, CatSet \ FinalPunts(result, num_teams, 1)),
        cat_win_probs |-> cat_win_probs,
        hitter_count |-> Len(hitters),
        pitcher_count |-> Cardinality(pitchers),
        first_pitcher_round |-> IF pitchers = {} THEN 0 ELSE SetMin(pitchers),
        bench_pitcher_count |-> result.bench_pitcher_count,
        sp_count |-> result.sp_count,
        rp_count |-> result.rp_count]

\* evaluate_draft (first_pitcher_round: 0 stands for None)
evaluate_draft(result, num_teams) ==
    LET cat_win_probs == EvalCatWinProbs(result, num_teams)
        hitters == SelectSeq(result.my_players, LAMBDA p : p.player_type = "hitter")
        pitchers == {i \in DOMAIN result.my_players : result.my_players[i].player_type = "pitcher"}
    IN [expected_wins |-> SumOver(cat_win_probs, CatSet),
        cat_win_probs |-> cat_win_probs,
        hitter_count |-> Len(hitters),
        pitcher_count |-> Cardinality(pitchers),
        first_pitcher_round |-> IF pitchers = {} THEN 0 ELSE SetMin(pitchers),
        bench_pitcher_count |-> result.bench_pitcher_count,
        sp_count |-> result.sp_count,
        rp_count |-> result.rp_count]

\* the roster-composition counts evaluate_draft reads from the result (lines
\* 47-49); the DraftResult of draft_engine.py does not declare them
CompositionCounts(my_players) ==
    [bench_pitcher_count |-> 0,
     sp_count |-> Len(SelectSeq(my_players,
                      LAMBDA p : p.player_type = "pitcher" /\ pitcher_role(p) = "SP")),
     rp_count |-> Len(SelectSeq(my_players,
                      LAMBDA p : p.player_type = "pitcher" /\ pitcher_role(p) = "RP"))]

\* ------------------------------------------------------------------------
\* config.py: SimConfig with its defaults
\* ------------------------------------------------------------------------

DefaultConfig ==
    [LOCK_MCW_WEIGHT |-> 100, TARGET_MCW_WEIGHT |-> 100,
     MCW_WEIGHT |-> 2100, VONA_WEIGHT_MCW |-> 16, VONA_WEIGHT_BPA |-> 42,
     URGENCY_WEIGHT_MCW |-> 2, URGENCY_WEIGHT_BPA |-> 55,
     AVAILABILITY_DISCOUNT |-> 19, BENCH_PENALTY_RATE |-> 63,
     PITCHER_BENCH_CONTRIBUTION |-> 45, HITTER_BENCH_CONTRIBUTION |-> 20,
     ADP_SIGMA |-> 1800, OPP_BENCH_ADP_PENALTY |-> 1500,
     SCALE_BPA_URGENCY |-> FALSE, USE_SLOT_SCARCITY |-> FALSE,
     USE_VARIABLE_SIGMA |-> FALSE, USE_WINDOW_VONA |-> FALSE,
     USE_SURPLUS_VALUE |-> TRUE,
     CONFIDENCE_START |-> 40, CONFIDENCE_END |-> 81,
     NUM_TEAMS |-> 10, NUM_ROUNDS |-> 25, PLAYOFF_SPOTS |-> 6]

\* SimConfig.with_overrides for the league size and the confidence ramp
LeagueConfig(num_teams, num_rounds, confidence_start, confidence_end) ==
    [DefaultConfig EXCEPT !.NUM_TEAMS = num_teams, !.NUM_ROUNDS = num_rounds,
                          !.CONFIDENCE_START = confidence_start,
                          !.CONFIDENCE_END = confidence_end]

\* ------------------------------------------------------------------------
\* Player pools (what load_players delivers: one record per mlb_id, every
\* category key present, positions without repetition)
\* ------------------------------------------------------------------------

SmallPool == 8

TinyPool == 4

DhRounds == 12

BigRounds == 26

NumSeeds == 2

SimsPerSlot == 1

PoolValue(i, j) == (((i * 37 + j * 11) % 61) - 30) * 5

NonZero(v) == IF v = 0 THEN 5 ELSE v

HitterScores(i) ==
    [k \in CatSet |->
        IF k \in Range(HITTING_CAT_KEYS)
        THEN PoolValue(i, CHOOSE j \in DOMAIN ALL_CAT_KEYS : ALL_CAT_KEYS[j] = k)
        ELSE 0]

PitcherScores(i, role) ==
    [k \in CatSet |->
        IF k \in Range(HITTING_CAT_KEYS) THEN 0
        ELSE IF k = "zscore_qs" THEN (IF role = "SP" THEN NonZero(PoolValue(i, 7)) ELSE 0)
        ELSE IF k = "zscore_svhd" THEN (IF role = "RP" THEN NonZero(PoolValue(i, 10)) ELSE 0)
        ELSE PoolValue(i, CHOOSE j \in DOMAIN ALL_CAT_KEYS : ALL_CAT_KEYS[j] = k)]

PoolAdp(i) == IF i % 9 = 0 THEN AdpNone ELSE i * Unit

Hitter(i, primary, eligible) ==
    [mlb_id |-> 100 + i, player_type |-> "hitter", primary_position |-> primary,
     eligible_positions |-> eligible, espn_adp |-> PoolAdp(i), zscores |-> HitterScores(i)]

Pitcher(i, role) ==
    [mlb_id |-> 100 + i, player_type |-> "pitcher", primary_position |-> role,
     eligible_positions |-> <<>>, espn_adp |-> PoolAdp(i), zscores |-> PitcherScores(i, role)]

MixedPlayer(i) ==
    CASE i % 8 = 1 -> Hitter(i, "C", <<>>)
      [] i % 8 = 2 -> Pitcher(i, "SP")
      [] i % 8 = 3 -> Hitter(i, "1B", <<"1B", "OF">>)
      [] i % 8 = 4 -> Pitcher(i, "RP")
      [] i % 8 = 5 -> Hitter(i, "LF", <<>>)
      [] i % 8 = 6 -> Hitter(i, "SS", <<"2B", "SS">>)
      [] i % 8 = 7 -> Hitter(i, "DH", <<>>)
      [] OTHER -> Hitter(i, "3B", <<>>)

MixedPool(n) == [i \in 1..n |-> MixedPlayer(i)]

\* designated hitters only: UTIL and BE are their only slots
DhPool(n) == [i \in 1..n |-> Hitter(i, "DH", <<>>)]

\* every second player has an empty primary position (load_players line 116)
\* and no eligible positions: no slot takes it
UnslottedPool(n) ==
    [i \in 1..n |-> IF i % 2 = 1 THEN Hitter(i, "", <<>>) ELSE MixedPlayer(i)]

Scenarios ==
    {[players |-> MixedPool(SmallPool), config |-> LeagueConfig(2, 3, 2, 6)],
     [players |-> MixedPool(TinyPool), config |-> LeagueConfig(3, 2, 40, 81)],
     [players |-> UnslottedPool(TinyPool), config |-> LeagueConfig(2, 2, 40, 81)],
     [players |-> DhPool(2 * DhRounds), config |-> LeagueConfig(2, DhRounds, 4, 4)],
     [players |-> MixedPool(2 * BigRounds), config |-> LeagueConfig(2, BigRounds, 40, 81)]}

Modes == {"benchmark", "sweep", "replay"}

\* ------------------------------------------------------------------------
\* The batch drivers: run_benchmark (simulate_draft.py), run_sweep
\* (sweep_bench.py, sweep_mcw_strategy.py), and two calls of simulate_draft
\* with identically seeded generators ("replay")
\* ------------------------------------------------------------------------

\* ------------------------------------------------------------------------
\* State
\*   players, config       the pool snapshot and the SimConfig a driver holds
\*   mode, seed, jobs       the driver, its master seed, the slot of each call
\*   rng                    the driver's generator
\*   results                the DraftResults collected so far
\*   sim                    the locals of the current simulate_draft call
\*   roster, call           a RosterState on its own and the last call on it
\*                          (method, player passed, value returned)
\* ------------------------------------------------------------------------

VARIABLES players, config, mode, seed, jobs, rng, results, sim, roster, call

vars == <<players, config, mode, seed, jobs, rng, results, sim, roster, call>>

RECURSIVE Repeat(_, _)
Repeat(x, n) == IF n = 0 THEN <<>> ELSE <<x>> \o Repeat(x, n - 1)

RECURSIVE SlotJobs(_, _, _)
\* for slot in range(num_teams): for _ in range(sims_per_slot)
SlotJobs(slot, num_teams, sims_per_slot) ==
    IF slot >= num_teams THEN <<>>
    ELSE Repeat(slot, sims_per_slot) \o SlotJobs(slot + 1, num_teams, sims_per_slot)

\* Faulty variant of SimRng: the second replayed call goes on with the
\* generator the first call left behind
SimRngLeftOver(md, driver_rng, sd) ==
    IF md = "benchmark"
    THEN [sim |-> RandomSeeded(RandintValue(RngAfter(driver_rng, 1))), driver |-> RngAfter(driver_rng, 1)]
    ELSE IF md = "sweep" THEN [sim |-> driver_rng, driver |-> driver_rng]
    ELSE IF results = <<>> THEN [sim |-> RandomSeeded(sd), driver |-> driver_rng]
    ELSE [sim |-> sim.rng, driver |-> driver_rng]

\* the generator handed to the next simulate_draft call and the driver's own
\* generator after handing it out
\*   run_benchmark: sim_seed = rng.randint(0, 2**31); random.Random(sim_seed)
\*   run_sweep:     the driver's generator itself
\*   replay:        random.Random(seed)
SimRng(md, driver_rng, sd) ==
    IF md = "benchmark"
    THEN [sim |-> RandomSeeded(RandintValue(RngAfter(driver_rng, 1))), driver |-> RngAfter(driver_rng, 1)]
    ELSE IF md = "sweep" THEN [sim |-> driver_rng, driver |-> driver_rng]
    ELSE [sim |-> RandomSeeded(sd), driver |-> driver_rng]

Init ==
    \E sc \in Scenarios, sd \in 1..NumSeeds, md \in Modes :
        /\ players = sc.players
        /\ config = sc.config
        /\ mode = md
        /\ seed = sd
        /\ IF md = "replay"
           THEN \E slot \in 0..(sc.config.NUM_TEAMS - 1) : jobs = <<slot, slot>>
           ELSE jobs = SlotJobs(0, sc.config.NUM_TEAMS, SimsPerSlot)
        /\ results = <<>>
        /\ rng = SimRng(md, RandomSeeded(sd), sd).driver
        /\ sim = NewSim(sc.players, jobs[1], sc.config, SimRng(md, RandomSeeded(sd), sd).sim)
        /\ roster = RosterInit
        /\ call = [op |-> "init", arg |-> "None", ret |-> "None"]

InSchedule(st) ==
    /\ st.pc = "loop"
    /\ st.pick_idx < st.config.NUM_TEAMS * st.config.NUM_ROUNDS

\* the simulated team's turn: it picks, or skips when nobody fits
MyTurnStep ==
    /\ InSchedule(sim)
    /\ sim.available_set # {}
    /\ snake_order(sim.pick_idx, sim.config.NUM_TEAMS) = sim.my_slot
    /\ sim' = MyTurn(sim)
    /\ UNCHANGED <<players, config, mode, seed, jobs, rng, results, roster, call>>

\* an opponent's turn
OpponentStep ==
    /\ InSchedule(sim)
    /\ sim.available_set # {}
    /\ snake_order(sim.pick_idx, sim.config.NUM_TEAMS) # sim.my_slot
    /\ sim' = OpponentTurn(sim, snake_order(sim.pick_idx, sim.config.NUM_TEAMS))
    /\ UNCHANGED <<players, config, mode, seed, jobs, rng, results, roster, call>>

\* line 83: the pool is empty, the loop is left
PoolEmptyBreak ==
    /\ InSchedule(sim)
    /\ sim.available_set = {}
    /\ sim' = Returned(sim, "break")
    /\ UNCHANGED <<players, config, mode, seed, jobs, rng, results, roster, call>>

\* the loop ran over every pick index
ScheduleExhausted ==
    /\ sim.pc = "loop"
    /\ ~InSchedule(sim)
    /\ sim' = Returned(sim, "exhausted")
    /\ UNCHANGED <<players, config, mode, seed, jobs, rng, results, roster, call>>

\* the driver takes the DraftResult; the list, the config and (run_sweep) the
\* generator it passed are the objects the call worked on
Collect ==
    /\ sim.pc = "returned"
    /\ results' = Append(results, DraftResult(sim))
    /\ players' = sim.all_players
    /\ config' = sim.config
    /\ rng' = IF mode = "sweep" THEN sim.rng ELSE rng
    /\ sim' = [sim EXCEPT !.pc = "collected"]
    /\ UNCHANGED <<mode, seed, jobs, roster, call>>

\* the driver's next call of simulate_draft
StartSim ==
    /\ sim.pc = "collected"
    /\ Len(results) < Len(jobs)
    /\ rng' = SimRng(mode, rng, seed).driver
    /\ sim' = NewSim(players, jobs[Len(results) + 1], config, SimRng(mode, rng, seed).sim)
    /\ UNCHANGED <<players, config, mode, seed, jobs, results, roster, call>>

Next ==
    \/ MyTurnStep
    \/ OpponentStep
    \/ PoolEmptyBreak
    \/ ScheduleExhausted
    \/ Collect
    \/ StartSim

Spec == Init /\ [][Next]_vars

\* an iteration of the loop of simulate_draft
LoopStep == MyTurnStep \/ OpponentStep \/ PoolEmptyBreak \/ ScheduleExhausted

\* weak fairness of LoopStep, a call in its loop runs on: LoopBody is total
\* and LoopStep is enabled exactly when sim.pc = "loop"
LoopFairness == []<>(sim.pc # "loop") \/ []<><<LoopStep>>_vars

\* the same behaviours with the steps eventually taken: a call of
\* simulate_draft runs on, a driver collects the result and makes its next call
FairSpec == Spec /\ LoopFairness /\ WF_vars(Collect) /\ WF_vars(StartSim)

\* ------------------------------------------------------------------------
\* A RosterState on its own: any sequence of calls of its methods
\* ------------------------------------------------------------------------

RosterPlayers ==
    {Hitter(1, "C", <<>>), Hitter(2, "1B", <<"1B", "OF">>), Pitcher(3, "SP"),
     Pitcher(4, "RP"), Hitter(5, "TWP", <<>>), Hitter(6, "DH", <<>>),
     Hitter(7, "", <<>>)}

RosterStart ==
    /\ players = <<>>
    /\ config = DefaultConfig
    /\ mode = "roster"
    /\ seed = 0
    /\ jobs = <<>>
    /\ rng = RandomSeeded(0)
    /\ results = <<>>
    /\ sim = [pc |-> "none"]
    /\ roster = RosterInit
    /\ call = [op |-> "init", arg |-> "None", ret |-> "None"]

CanAddCall ==
    \E p \in RosterPlayers :
        /\ call' = [op |-> "can_add", arg |-> p, ret |-> can_add(roster, p)]
        /\ UNCHANGED <<players, config, mode, seed, jobs, rng, results, sim, roster>>

AddPlayerCall ==
    \E p \in RosterPlayers :
        /\ call' = [op |-> "add_player", arg |-> p, ret |-> add_player(roster, p).ret]
        /\ roster' = add_player(roster, p).capacity
        /\ UNCHANGED <<players, config, mode, seed, jobs, rng, results, sim>>

HasStartingNeedCall ==
    \E p \in RosterPlayers :
        /\ call' = [op |-> "has_starting_need", arg |-> p, ret |-> has_starting_need(roster, p)]
        /\ UNCHANGED <<players, config, mode, seed, jobs, rng, results, sim, roster>>

SlotScarcityCall ==
    \E p \in RosterPlayers :
        /\ call' = [op |-> "slot_scarcity", arg |-> p, ret |-> slot_scarcity(roster, p)]
        /\ UNCHANGED <<players, config, mode, seed, jobs, rng, results, sim, roster>>

RosterNext ==
    \/ CanAddCall
    \/ AddPlayerCall
    \/ HasStartingNeedCall
    \/ SlotScarcityCall

RosterSpec == RosterStart /\ [][RosterNext]_vars

\* ------------------------------------------------------------------------
\* Properties of simulate_draft and of the batch drivers
\* ------------------------------------------------------------------------

Teams(st) == 0..(st.config.NUM_TEAMS - 1)

ScheduledPicks(st) == st.config.NUM_TEAMS * st.config.NUM_ROUNDS

Drafted(st) == UNION {Range(st.team_players[t]) : t \in Teams(st)}

TotalPicks(st) == SumOver([t \in Teams(st) |-> Len(st.team_players[t])], Teams(st))

TotalSkipped(st) == SumOver(st.skipped, Teams(st))

SlotCount(st, t, slot) ==
    Cardinality({i \in DOMAIN st.team_slots[t] : st.team_slots[t][i] = slot})

TeamOnTheClock(st) == snake_order(st.pick_idx, st.config.NUM_TEAMS)

AtTurn(st) == InSchedule(st) /\ st.available_set # {}

NoFit(st, t) ==
    \A id \in st.available_set : ~can_add(st.rosters[t], PlayerById(st.all_players, id))

C2_DraftedOnce ==
    /\ [](/\ Cardinality(Drafted(sim)) = TotalPicks(sim)
          /\ Drafted(sim) \cap sim.available_set = {})
    /\ [][sim.pc = "loop" =>
            /\ sim'.available_set \subseteq sim.available_set
            /\ Drafted(sim) \subseteq Drafted(sim')]_vars

C2_Witness ==
    /\ sim.pc = "loop"
    /\ \A t \in Teams(sim) : Len(sim.team_players[t]) >= 2
    /\ sim.available_set # {}

\* C3: at every point of a run, for every team, the number of players drafted
\* by the team is at most the sum of ROSTER_SLOTS and no slot type holds more
\* players than its capacity.
C3_WithinCapacity ==
    \A t \in Teams(sim) :
        /\ Len(sim.team_players[t]) <= TOTAL_ROSTER_SIZE
        /\ \A slot \in SlotNames : SlotCount(sim, t, slot) <= ROSTER_SLOTS[slot]

\* the pool holds a player for every scheduled pick and every player has an
\* eligible slot
EnoughSlottedPlayers(st) ==
    /\ Len(st.all_players) >= ScheduledPicks(st)
    /\ \A i \in DOMAIN st.all_players : eligible_slots_ordered(st.all_players[i]) # <<>>

MyRosterWellFormed(st) ==
    /\ \A i, j \in DOMAIN st.my_players :
          st.my_players[i].mlb_id = st.my_players[j].mlb_id => i = j
    /\ [i \in DOMAIN st.my_players |-> st.my_players[i].mlb_id] = st.team_players[st.my_slot]
    /\ \A i \in DOMAIN st.my_players :
          st.team_slots[st.my_slot][i] \in Range(eligible_slots_ordered(st.my_players[i]))
    /\ \A slot \in SlotNames : SlotCount(st, st.my_slot, slot) <= ROSTER_SLOTS[slot]

\* C4, as stated: over a pool of at least NUM_TEAMS x NUM_ROUNDS players that
\* each have an eligible slot, the simulated team's final roster has exactly
\* NUM_ROUNDS distinct players, each in an eligible slot, no slot over capacity.
C4_ExactlyNumRounds ==
    (sim.pc = "returned" /\ EnoughSlottedPlayers(sim)) =>
        /\ Len(sim.my_players) = sim.config.NUM_ROUNDS
        /\ MyRosterWellFormed(sim)

\* C4, amended: over such a pool the simulated team's final roster has
\* NUM_ROUNDS minus the number of its skipped turns distinct players, each in
\* an eligible slot, no slot over capacity; the team skips a turn exactly when
\* no available player fits an open slot of its roster.
C4_NumRoundsLessSkips ==
    /\ []((sim.pc = "returned" /\ EnoughSlottedPlayers(sim)) =>
            /\ Len(sim.my_players) = sim.config.NUM_ROUNDS - sim.skipped[sim.my_slot]
            /\ MyRosterWellFormed(sim))
    /\ [][(AtTurn(sim) /\ TeamOnTheClock(sim) = sim.my_slot) =>
            (NoFit(sim, sim.my_slot) <=>
                sim'.skipped[sim.my_slot] = sim.skipped[sim.my_slot] + 1)]_vars

C4_Witness ==
    /\ sim.pc = "returned"
    /\ EnoughSlottedPlayers(sim)
    /\ sim.skipped[sim.my_slot] > 0
    /\ Len(sim.my_players) > 0

\* C5: whenever it is a team's turn and no available player fits an open slot
\* of its roster, the pick is skipped: no player leaves the pool, the rosters,
\* capacities and totals are unchanged, and the run goes on with the next
\* pick index.
C5_SkipWhenNoFit ==
    [][(AtTurn(sim) /\ NoFit(sim, TeamOnTheClock(sim))) =>
          /\ sim'.pc = "loop"
          /\ sim'.pick_idx = sim.pick_idx + 1
          /\ sim'.available_set = sim.available_set
          /\ sim'.rosters = sim.rosters
          /\ sim'.team_players = sim.team_players
          /\ sim'.team_totals = sim.team_totals]_vars

\* C6: every run of simulate_draft ends; it ends with every pick index
\* processed or, earlier, at the first pick index at which the pool is empty;
\* the pick index advances by one at every iteration.
C6_Terminates ==
    /\ (sim.pc = "loop") ~> (sim.pc = "returned")
    /\ [](sim.pc = "returned" =>
            \/ sim.last.kind = "exhausted" /\ sim.pick_idx = ScheduledPicks(sim)
            \/ /\ sim.last.kind = "break"
               /\ sim.pick_idx < ScheduledPicks(sim)
               /\ sim.available_set = {})
    /\ [][(sim.pc = "loop" /\ sim'.pc = "loop") =>
            /\ sim.available_set # {}
            /\ sim'.pick_idx = sim.pick_idx + 1]_vars

C6_Witness ==
    /\ sim.pc = "returned"
    /\ sim.last.kind = "break"
    /\ sim.pick_idx > 0
    /\ sim.pick_idx < ScheduledPicks(sim)

\* C7, as stated: when a run ends the number of picks made across all teams
\* is NUM_TEAMS x NUM_ROUNDS.
C7_AllPicksMade ==
    sim.pc = "returned" => TotalPicks(sim) = ScheduledPicks(sim)

\* C7, amended: when a run ends the number of picks made across all teams is
\* the number of pick indices processed minus the number of skipped turns; it
\* is at most NUM_TEAMS x NUM_ROUNDS, and equal to it exactly when every pick
\* index was processed and no turn was skipped.
C7_PicksLessSkips ==
    sim.pc = "returned" =>
        /\ TotalPicks(sim) = sim.pick_idx - TotalSkipped(sim)
        /\ TotalPicks(sim) <= ScheduledPicks(sim)
        /\ TotalPicks(sim) = ScheduledPicks(sim) <=>
              (sim.pick_idx = ScheduledPicks(sim) /\ TotalSkipped(sim) = 0)

C7_Witness ==
    /\ sim.pc = "returned"
    /\ TotalSkipped(sim) > 0
    /\ TotalPicks(sim) > 0
    /\ TotalPicks(sim) < ScheduledPicks(sim)

\* the seed run_benchmark derives for its k-th simulation
DerivedSeed(master, k) == RandintValue(RngAfter(RandomSeeded(master), k))

\* C8: in a batch (run_benchmark, run_sweep) the k-th DraftResult is the
\* result of that simulation run alone on a generator of its own, seeded with
\* the master seed or with the seed derived from the master seed and k.
C8_OwnStream ==
    (sim.pc = "collected" /\ mode \in {"benchmark", "sweep"}) =>
        LET k == Len(results)
        IN \/ results[k] = simulate_draft(players, jobs[k], config, RandomSeeded(seed))
           \/ results[k] = simulate_draft(players, jobs[k], config,
                                          RandomSeeded(DerivedSeed(seed, k)))

\* C9: a run leaves the player list, every Player record and the SimConfig as
\* they were passed in, and every call starts from availability, rosters and
\* totals of its own.
C9_InputsUntouched ==
    /\ [](sim.all_players = players /\ sim.config = config)
    /\ [][players' = players /\ config' = config]_vars
    /\ [][(sim.pc = "collected" /\ sim'.pc = "loop") =>
            /\ sim'.available_set = {players[i].mlb_id : i \in DOMAIN players}
            /\ \A t \in Teams(sim') :
                  /\ sim'.rosters[t] = ROSTER_SLOTS
                  /\ sim'.team_players[t] = <<>>
                  /\ \A k \in CatSet : sim'.team_totals[t][k] = 0]_vars

C9_Witness ==
    /\ Len(results) >= 1
    /\ sim.pc = "returned"
    /\ TotalPicks(sim) > 1
    /\ sim.all_players = players

\* C10: every slot's remaining capacity stays between 0 and its initial
\* value; an add_player call that returns a slot decrements exactly that slot
\* by one; an add_player call that returns None and every can_add,
\* has_starting_need and slot_scarcity call leave every capacity unchanged.
C10_CapacityBookkeeping ==
    /\ [](/\ DOMAIN roster = SlotNames
          /\ \A slot \in SlotNames : 0 <= roster[slot] /\ roster[slot] <= ROSTER_SLOTS[slot])
    /\ [][IF call'.op = "add_player" /\ call'.ret # "None"
          THEN roster' = [roster EXCEPT ![call'.ret] = roster[call'.ret] - 1]
          ELSE roster' = roster]_vars

C10_Witness ==
    /\ call.op = "add_player"
    /\ call.ret = "None"
    /\ roster["BE"] = 0
    /\ roster["UTIL"] = 0

\* ------------------------------------------------------------------------
\* Properties of RosterState, of snake_order and of the scoring model
\* ------------------------------------------------------------------------

\* the kinds of slot of POSITION_TO_SLOTS: 1 a slot of one position, 2 a flex
\* slot (UTIL, P), 3 the bench
SlotTier(slot) ==
    IF slot = "BE" THEN 3 ELSE IF slot \in {"UTIL", "P"} THEN 2 ELSE 1

\* the slots some position of p maps to
EligibleSlotSet(p) ==
    UNION {Range(SlotsOfPosition(get_positions(p)[i])) : i \in DOMAIN get_positions(p)}

\* the eligible slots with capacity left
OpenSlots(capacity, p) == {s \in EligibleSlotSet(p) : CapGet(capacity, s) > 0}

\* C11: can_add(player) is true exactly when some eligible slot has capacity
\* > 0, and add_player(player) then returns an eligible slot with capacity of
\* the most restrictive kind there is: a single-position slot before a flex
\* slot (UTIL, P), a flex slot before the bench.
C11_MostRestrictiveSlot ==
    [][/\ call'.op = "can_add" =>
              (call'.ret <=> OpenSlots(roster, call'.arg) # {})
       /\ call'.op = "add_player" =>
              IF OpenSlots(roster, call'.arg) = {} THEN call'.ret = "None"
              ELSE /\ call'.ret \in OpenSlots(roster, call'.arg)
                   /\ \A s \in OpenSlots(roster, call'.arg) :
                          SlotTier(call'.ret) <= SlotTier(s)]_vars

\* ------------------------------------------------------------------------
\* The pick schedule on its own: the loop header of simulate_draft (lines
\* 79-81) for leagues of 1..MaxTeams teams and 1..MaxRounds rounds
\* ------------------------------------------------------------------------

MaxTeams == 5

MaxRounds == 4

ScheduleStart ==
    \E n \in 1..MaxTeams, r \in 1..MaxRounds :
        /\ players = <<>>
        /\ config = LeagueConfig(n, r, 40, 81)
        /\ mode = "schedule"
        /\ seed = 0
        /\ jobs = <<>>
        /\ rng = RandomSeeded(0)
        /\ results = <<>>
        /\ sim = [pc |-> "schedule", pick_idx |-> 0, turns |-> <<>>]
        /\ roster = RosterInit
        /\ call = [op |-> "init", arg |-> "None", ret |-> "None"]

\* for pick_idx in range(total_picks): team_idx = snake_order(pick_idx, num_teams)
ScheduleStep ==
    /\ sim.pc = "schedule"
    /\ sim.pick_idx < config.NUM_TEAMS * config.NUM_ROUNDS
    /\ sim' = [sim EXCEPT
                 !.turns = Append(sim.turns, snake_order(sim.pick_idx, config.NUM_TEAMS)),
                 !.pick_idx = NextPickIdx(sim.pick_idx)]
    /\ UNCHANGED <<players, config, mode, seed, jobs, rng, results, roster, call>>

ScheduleSpec == ScheduleStart /\ [][ScheduleStep]_vars

\* the turns of a team among the picks lo..hi (1-based) of a schedule
TurnsOf(turns, team, lo, hi) ==
    Cardinality({i \in lo..hi : i \in DOMAIN turns /\ turns[i] = team})

\* C12: the team of pick k is k mod num_teams in even rounds and
\* num_teams - 1 - (k mod num_teams) in odd rounds; in every completed round
\* each team picks exactly once; the team that picks last in a round picks
\* first in the next; after NUM_ROUNDS rounds every team has had exactly
\* NUM_ROUNDS turns.
C12_SnakeOrder ==
    mode = "schedule" =>
        LET n == config.NUM_TEAMS
            turns == sim.turns
        IN /\ \A i \in DOMAIN turns :
                  turns[i] = IF ((i - 1) \div n) % 2 = 0 THEN (i - 1) % n
                             ELSE n - 1 - ((i - 1) % n)
           /\ \A r \in 1..(Len(turns) \div n) : \A team \in 0..(n - 1) :
                  TurnsOf(turns, team, (r - 1) * n + 1, r * n) = 1
           /\ \A i \in DOMAIN turns : (i > 1 /\ (i - 1) % n = 0) => turns[i] = turns[i - 1]
           /\ Len(turns) = n * config.NUM_ROUNDS =>
                  \A team \in 0..(n - 1) :
                      TurnsOf(turns, team, 1, Len(turns)) = config.NUM_ROUNDS

C12_Witness ==
    /\ mode = "schedule"
    /\ config.NUM_TEAMS >= 3
    /\ config.NUM_ROUNDS >= 3
    /\ Len(sim.turns) = config.NUM_TEAMS * config.NUM_ROUNDS

\* ------------------------------------------------------------------------
\* The functions of scoring_model.py and evaluate.py on their own: a call
\* with its arguments drawn from small sets (call.arg), then its return
\* (call.ret)
\* ------------------------------------------------------------------------

PuntCats == 4

MaxStandTeams == 4

\* standings of one category: the simulated team last and far behind, last
\* but one and far behind, first and far ahead, last and close
StandingProfiles == {"last_far", "second_last_far", "first", "last_near"}

ProfileMine(pr) == IF pr = "first" THEN 5 * Unit ELSE 0

\* the rivals' totals of one category, largest first (draft_engine.py line 106)
ProfileRivals(pr, num_teams) ==
    [i \in 1..(num_teams - 1) |->
        CASE pr = "last_far" -> 5 * Unit
          [] pr = "second_last_far" -> IF i = num_teams - 1 THEN 0 - Unit ELSE 5 * Unit
          [] pr = "first" -> 0
          [] OTHER -> Unit]

\* the profile of each category: the first PuntCats categories as assigned,
\* the others last and close
ProfileOf(assigned, cat_key) ==
    LET i == CHOOSE j \in DOMAIN ALL_CAT_KEYS : ALL_CAT_KEYS[j] = cat_key
    IN IF i \in DOMAIN assigned THEN assigned[i] ELSE "last_near"

StandingsArgs(n) ==
    {[my_totals |-> [k \in CatSet |-> ProfileMine(ProfileOf(assigned, k))],
      other_team_totals |-> [k \in CatSet |-> ProfileRivals(ProfileOf(assigned, k), n)],
      my_pick_count |-> picks,
      num_teams |-> n,
      playoff_spots |-> spots] :
        assigned \in [1..Min(PuntCats, Len(ALL_CAT_KEYS)) -> StandingProfiles],
        picks \in {5, 6, 7},
        spots \in {1, 2, 6}}

\* the arguments of a call, before the call
Pending(op, arg) ==
    /\ players = <<>>
    /\ config = DefaultConfig
    /\ mode = "scoring"
    /\ seed = 0
    /\ jobs = <<>>
    /\ rng = RandomSeeded(0)
    /\ results = <<>>
    /\ sim = [pc |-> "call"]
    /\ roster = RosterInit
    /\ call = [op |-> op, arg |-> arg, ret |-> "None"]

\* a call of op is about to run
Calling(op) == mode = "scoring" /\ sim.pc = "call" /\ call.op = op

\* the call with its return value
Return(ret) == [call EXCEPT !.ret = ret]

CallReturned(op) == mode = "scoring" /\ sim.pc = "returned" /\ call.op = op

\* draft_engine.py lines 110-113: analyze_category_standings, then
\* detect_strategy on its result
DetectStrategyCall ==
    /\ Calling("detect_strategy")
    /\ call' = Return(
            detect_strategy(
                analyze_category_standings(call.arg.my_totals, call.arg.other_team_totals,
                                           call.arg.num_teams),
                call.arg.my_pick_count, call.arg.num_teams, call.arg.playoff_spots))
    /\ sim' = [pc |-> "returned"]
    /\ UNCHANGED <<players, config, mode, seed, jobs, rng, results, roster>>

\* the categories that qualify as punt in the standings detect_strategy is
\* given (none before the sixth pick)
PuntQualifiers(arg) ==
    LET standings == analyze_category_standings(arg.my_totals, arg.other_team_totals,
                                                arg.num_teams)
    IN IF arg.my_pick_count < 6 THEN {}
       ELSE {i \in DOMAIN standings :
                ClassifyStanding(standings[i], arg.num_teams, arg.playoff_spots) = "punt"}

\* C13: after detect_strategy at most two categories are tagged punt; when
\* more than two qualify, exactly two of them keep the tag, none of the
\* others has a worse (larger) rank than a kept one, and the others are
\* tagged neutral.
C13_AtMostTwoPunts ==
    CallReturned("detect_strategy") =>
        LET qualified == PuntQualifiers(call.arg)
            kept == PuntTagged(call.ret)
        IN /\ Cardinality(kept) <= 2
           /\ kept \subseteq qualified
           /\ Cardinality(qualified) > 2 =>
                  /\ Cardinality(kept) = 2
                  /\ \A d \in qualified \ kept :
                         /\ call.ret[d].strategy = "neutral"
                         /\ \A k \in kept : call.ret[k].my_rank >= call.ret[d].my_rank

C13_Witness ==
    /\ CallReturned("detect_strategy")
    /\ Cardinality(PuntQualifiers(call.arg)) > 2
    /\ \E d \in PuntQualifiers(call.arg) \ PuntTagged(call.ret) :
           \E k \in PuntTagged(call.ret) :
               /\ call.ret[k].my_rank > call.ret[d].my_rank
               /\ d < k

MaxField == 3

RankSpread == 1

\* totals of a category: multiples of 1.0 around 0
RankValues == {v * Unit : v \in (0 - RankSpread)..RankSpread}

\* the other teams' totals of a category: n of them (up to MaxField), repeats
\* (ties) included
RankFields(n) == [1..n -> RankValues]

RankArgs(n) ==
    {[values |-> <<v1, v2>>, other_totals |-> field] :
        v1 \in RankValues, v2 \in RankValues, field \in RankFields(n)}

\* compute_rank of two values against the same field
ComputeRankCall ==
    /\ Calling("compute_rank")
    /\ call' = Return(
            <<compute_rank(call.arg.values[1], call.arg.other_totals),
              compute_rank(call.arg.values[2], call.arg.other_totals)>>)
    /\ sim' = [pc |-> "returned"]
    /\ UNCHANGED <<players, config, mode, seed, jobs, rng, results, roster>>

NumGreater(field, v) == Len(SelectSeq(field, LAMBDA t : t > v))

NumEqual(field, v) == Len(SelectSeq(field, LAMBDA t : t = v))

\* C14: compute_rank(value, field) = 1 + (entries strictly greater) +
\* (entries equal)/2 (ranks are held doubled), and for a fixed field
\* v1 <= v2 implies rank(v2) <= rank(v1).
C14_RankFormulaMonotone ==
    CallReturned("compute_rank") =>
        /\ \A i \in 1..2 :
               call.ret[i] = 2 + 2 * NumGreater(call.arg.other_totals, call.arg.values[i])
                               + NumEqual(call.arg.other_totals, call.arg.values[i])
        /\ call.arg.values[1] <= call.arg.values[2] => call.ret[2] <= call.ret[1]

C14_Witness ==
    /\ CallReturned("compute_rank")
    /\ call.arg.values[1] < call.arg.values[2]
    /\ NumEqual(call.arg.other_totals, call.arg.values[1]) >= 1
    /\ NumGreater(call.arg.other_totals, call.arg.values[2]) >= 1
    /\ call.ret[2] < call.ret[1]

\* a call that divides raises ZeroDivisionError when one of the divisors it
\* evaluates is 0
Raises(divisors) == 0 \in divisors

\* win_prob_from_rank line 68: num_teams - 1, reached when num_teams > 1
WinProbDivisors(num_teams) == IF num_teams <= 1 THEN {} ELSE {num_teams - 1}

\* compute_mcw lines 215-217 for one category: gap_before (guarded by line
\* 215) and num_teams - 1, reached when the fractional credit is given
CreditDivisors(cat_key, arg) ==
    LET my_val == ZGet(arg.my_totals, cat_key)
        player_val == ZGet(arg.player_zscores, cat_key)
        other_vals == arg.other_team_totals[cat_key]
        marginal_win == win_prob_from_rank(compute_rank(my_val + player_val, other_vals),
                                           arg.num_teams)
                        - win_prob_from_rank(compute_rank(my_val, other_vals), arg.num_teams)
        above_before == {i \in DOMAIN other_vals : other_vals[i] > my_val}
        above_after == {i \in DOMAIN other_vals : other_vals[i] > my_val + player_val}
    IN IF /\ StrategyGet(arg.strategies, cat_key) # "punt"
          /\ player_val # 0
          /\ marginal_win = 0
          /\ player_val > 0
          /\ above_before # {}
          /\ Cardinality(above_after) = Cardinality(above_before)
          /\ SetMin({other_vals[i] : i \in above_before}) - my_val > 0
       THEN {SetMin({other_vals[i] : i \in above_before}) - my_val, arg.num_teams - 1}
       ELSE {}

McwDivisors(arg) ==
    WinProbDivisors(arg.num_teams) \cup UNION {CreditDivisors(k, arg) : k \in CatSet}

\* compute_cat_stats lines 270-272: n = len(values) or 1
CatStatsDivisors(available_players) ==
    {LET relevant == SelectSeq(available_players,
                               LAMBDA p : (p.player_type = "hitter")
                                          = (cat_key \in Range(HITTING_CAT_KEYS)))
     IN IF Len(relevant) = 0 THEN 1 ELSE Len(relevant) : cat_key \in CatSet}

\* get_normalized_value line 284: cs.stdev
NormalizedDivisors(cat_stats) == {cat_stats[k].stdev : k \in DOMAIN cat_stats}

\* slot_scarcity line 48: min_cap, reached when min_cap > 0
ScarcityDivisors(capacity, p) ==
    LET slots == eligible_slots_ordered(p)
        caps == {CapGet(capacity, slots[i]) :
                    i \in {j \in DOMAIN slots : slots[j] # "BE" /\ CapGet(capacity, slots[j]) > 0}}
    IN IF caps = {} THEN {} ELSE {SetMin(caps)}

\* standings_confidence line 86: span, reached when span > 0
ConfidenceDivisors(cfg) ==
    IF cfg.CONFIDENCE_END - cfg.CONFIDENCE_START <= 0 THEN {}
    ELSE {cfg.CONFIDENCE_END - cfg.CONFIDENCE_START}

\* full_player_score lines 542-544: sigma of compute_availability (line 59),
\* reached for a player with an ADP when window VONA is off
AvailabilityDivisors(p, cfg) ==
    IF ~cfg.USE_WINDOW_VONA /\ p.espn_adp # AdpNone
    THEN {IF cfg.USE_VARIABLE_SIGMA THEN variable_adp_sigma(p.espn_adp)
          ELSE cfg.ADP_SIGMA}
    ELSE {}

\* what a call returns: ZeroDivisionError, or its value
Outcome(divisors, value) ==
    IF Raises(divisors) THEN [raised |-> TRUE] ELSE [raised |-> FALSE, value |-> value]

\* a value against a field of num_teams - 1 rivals
WinProbArgs(n) ==
    {[my_value |-> v, other_totals |-> field, num_teams |-> n] :
        v \in RankValues, field \in RankFields(n - 1)}

\* win_prob_from_rank of the rank compute_rank returns (as
\* analyze_category_standings lines 112-113), of rank 1 and of rank num_teams
WinProbCall ==
    /\ Calling("win_prob_from_rank")
    /\ call' = Return(
            [raised |-> Raises(WinProbDivisors(call.arg.num_teams)),
             rank |-> compute_rank(call.arg.my_value, call.arg.other_totals),
             win_prob |-> win_prob_from_rank(
                              compute_rank(call.arg.my_value, call.arg.other_totals),
                              call.arg.num_teams),
             first |-> win_prob_from_rank(2 * 1, call.arg.num_teams),
             last |-> win_prob_from_rank(2 * call.arg.num_teams, call.arg.num_teams)])
    /\ sim' = [pc |-> "returned"]
    /\ UNCHANGED <<players, config, mode, seed, jobs, rng, results, roster>>

\* C15: for N > 1 teams win_prob_from_rank(1, N) = 1.0 and
\* win_prob_from_rank(N, N) = 0.0, and the win probability of every rank
\* compute_rank returns against N - 1 rivals lies in [0, 1].
C15_WinProbRange ==
    (CallReturned("win_prob_from_rank") /\ call.arg.num_teams > 1) =>
        /\ call.ret.first = Unit
        /\ call.ret.last = 0
        /\ 0 <= call.ret.win_prob
        /\ call.ret.win_prob <= Unit

C15_Witness ==
    /\ CallReturned("win_prob_from_rank")
    /\ call.arg.num_teams > 2
    /\ call.ret.rank % 2 = 1
    /\ 0 < call.ret.win_prob
    /\ call.ret.win_prob < Unit

\* the category whose standings and candidate value vary, and a second
\* category in which the candidate always counts
VariedCat == "zscore_r"

SteadyCat == "zscore_tb"

\* n totals, largest first (draft_engine.py line 106)
SortedFields(n) ==
    {field \in [1..n -> RankValues] : \A i \in 1..(n - 1) : field[i] >= field[i + 1]}

\* the candidate's value in VariedCat: negative, zero, closing half a gap,
\* passing a rival
CandidateValues == {0 - Unit, 0, Unit \div 2, 2 * Unit}

StrategyTags == {"neutral", "punt", "lock", "target"}

\* LOCK_MCW_WEIGHT and TARGET_MCW_WEIGHT: the defaults, and a reduced lock
\* with a boosted target
McwWeights == {<<Unit, Unit>>, <<Unit \div 2, 3 * Unit>>}

\* SteadyCat: the candidate closes half of the gap to every rival under the
\* tag target, or passes every rival under the tag neutral
SteadyCases ==
    {[player |-> Unit \div 2, strategy |-> "target"],
     [player |-> 2 * Unit, strategy |-> "neutral"]}

McwArgsOf(n, mine, field, value, missing, tag, steady, weights) ==
    [player_zscores |->
         [k \in (IF missing THEN CatSet \ {VariedCat} ELSE CatSet) |->
             IF k = VariedCat THEN value
             ELSE IF k = SteadyCat THEN steady.player ELSE 0],
     my_totals |-> [k \in CatSet |-> IF k = VariedCat THEN mine ELSE 0],
     other_team_totals |->
         [k \in CatSet |->
             IF k = VariedCat THEN field
             ELSE [i \in 1..(n - 1) |-> IF k = SteadyCat THEN Unit ELSE 0]],
     strategies |->
         [k \in CatSet |->
             IF k = VariedCat THEN tag
             ELSE IF k = SteadyCat THEN steady.strategy ELSE "neutral"],
     num_teams |-> n,
     config |-> [DefaultConfig EXCEPT !.LOCK_MCW_WEIGHT = weights[1],
                                      !.TARGET_MCW_WEIGHT = weights[2]]]

McwArgsFor(n) ==
    {McwArgsOf(n, mine, field, value, missing, tag, steady, weights) :
        mine \in RankValues, value \in CandidateValues,
        missing \in BOOLEAN, tag \in StrategyTags, steady \in SteadyCases,
        weights \in McwWeights, field \in SortedFields(n - 1)}

\* the standings of VariedCat moved: the simulated team a full point behind
\* every rival
MovedTotals(arg) == [arg.my_totals EXCEPT ![VariedCat] = 0 - 2 * Unit]

MovedRivals(arg) ==
    [arg.other_team_totals EXCEPT ![VariedCat] = [i \in 1..(arg.num_teams - 1) |-> 0 - Unit]]

\* compute_mcw for a candidate, with what each category adds to mcw (line
\* 227), the standings of the categories (analyze_category_standings), and
\* compute_mcw again after the standings of VariedCat moved
ComputeMcwCall ==
    /\ Calling("compute_mcw")
    /\ call' = Return(
            [raised |-> Raises(McwDivisors(call.arg)),
             mcw |-> compute_mcw(call.arg.player_zscores, call.arg.my_totals,
                                 call.arg.other_team_totals, call.arg.strategies,
                                 call.arg.num_teams, call.arg.config),
             added |-> [k \in CatSet |->
                           McwOfCategory(k, call.arg.player_zscores, call.arg.my_totals,
                                         call.arg.other_team_totals, call.arg.strategies,
                                         call.arg.num_teams, call.arg.config)],
             standings |-> analyze_category_standings(call.arg.my_totals,
                                                      call.arg.other_team_totals,
                                                      call.arg.num_teams),
             mcw_moved |-> compute_mcw(call.arg.player_zscores, MovedTotals(call.arg),
                                       MovedRivals(call.arg), call.arg.strategies,
                                       call.arg.num_teams, call.arg.config)])
    /\ sim' = [pc |-> "returned"]
    /\ UNCHANGED <<players, config, mode, seed, jobs, rng, results, roster>>

StandingOf(standings, cat_key) ==
    standings[CHOOSE i \in DOMAIN standings : standings[i].cat_key = cat_key]

\* there are rivals, and the simulated team is ahead of each
AheadOfEveryRival(arg, cat_key) ==
    /\ arg.other_team_totals[cat_key] # <<>>
    /\ \A i \in DOMAIN arg.other_team_totals[cat_key] :
           arg.my_totals[cat_key] > arg.other_team_totals[cat_key][i]

\* the candidate's value in a category as the dict holds it
HeldValue(arg, cat_key) ==
    IF cat_key \in DOMAIN arg.player_zscores THEN arg.player_zscores[cat_key] ELSE 0

\* C16: in a category where the simulated team's total strictly exceeds every
\* rival's, its rank is 1.0 and its win probability 1.0, and compute_mcw adds
\* 0 for that category for a candidate with a positive value in it, under
\* every strategy tag and lock/target weight.
C16_NoCreditWhenFirst ==
    CallReturned("compute_mcw") =>
        \A k \in CatSet :
            (AheadOfEveryRival(call.arg, k) /\ HeldValue(call.arg, k) > 0) =>
                /\ StandingOf(call.ret.standings, k).my_rank = 2 * 1
                /\ StandingOf(call.ret.standings, k).win_prob = Unit
                /\ call.ret.added[k] = 0
                /\ call.ret.mcw = SumOver(call.ret.added, CatSet \ {k})

C16_Witness ==
    /\ CallReturned("compute_mcw")
    /\ AheadOfEveryRival(call.arg, VariedCat)
    /\ HeldValue(call.arg, VariedCat) > 0
    /\ call.arg.strategies[VariedCat] = "target"
    /\ call.arg.config.TARGET_MCW_WEIGHT > Unit
    /\ call.arg.num_teams > 2
    /\ call.ret.mcw > 0

\* C17: a category in which the candidate's value is 0 or missing adds
\* exactly 0 to the MCW, whatever the totals, the rivals' totals, the tags
\* and the weights; moving the standings of that category leaves the
\* candidate's MCW as it was.
C17_ZeroValueAddsNothing ==
    CallReturned("compute_mcw") =>
        \A k \in CatSet :
            HeldValue(call.arg, k) = 0 =>
                /\ call.ret.added[k] = 0
                /\ call.ret.mcw = SumOver(call.ret.added, CatSet \ {k})
                /\ k = VariedCat => call.ret.mcw_moved = call.ret.mcw

C17_Witness ==
    /\ CallReturned("compute_mcw")
    /\ VariedCat \notin DOMAIN call.arg.player_zscores
    /\ call.arg.strategies[VariedCat] = "target"
    /\ ~AheadOfEveryRival(call.arg, VariedCat)
    /\ call.arg.my_totals # MovedTotals(call.arg)
    /\ call.arg.other_team_totals # MovedRivals(call.arg)
    /\ call.ret.mcw > 0
    /\ call.ret.mcw_moved = call.ret.mcw

\* a finished draft of six rounds: the simulated team at my_slot with the
\* totals of its profile in each category, the rivals in team order
EvalResult(n, my_slot, assigned) ==
    LET my_players == [i \in 1..6 |-> MixedPlayer(i)]
        counts == CompositionCounts(my_players)
    IN [my_slot |-> my_slot,
        my_players |-> my_players,
        pick_order |-> [i \in 1..6 |-> my_players[i].mlb_id],
        all_team_totals |->
            [t \in 0..(n - 1) |->
                [k \in CatSet |->
                    IF t = my_slot THEN ProfileMine(ProfileOf(assigned, k))
                    ELSE ProfileRivals(ProfileOf(assigned, k), n)[IF t < my_slot THEN t + 1 ELSE t]]],
        bench_pitcher_count |-> counts.bench_pitcher_count,
        sp_count |-> counts.sp_count,
        rp_count |-> counts.rp_count]

EvalArgsFor(n) ==
    {[result |-> EvalResult(n, my_slot, assigned), num_teams |-> n] :
        my_slot \in 0..(n - 1),
        assigned \in [1..Min(PuntCats, Len(ALL_CAT_KEYS)) -> StandingProfiles]}

\* simulate_draft.py line 55: evaluate_draft(draft_result, num_teams)
EvaluateDraftCall ==
    /\ Calling("evaluate_draft")
    /\ call' = Return(evaluate_draft(call.arg.result, call.arg.num_teams))
    /\ sim' = [pc |-> "returned"]
    /\ UNCHANGED <<players, config, mode, seed, jobs, rng, results, roster>>

\* the other teams' totals of a category in team order
RivalTotals(result, num_teams, cat_key) ==
    [i \in 1..(num_teams - 1) |->
        result.all_team_totals[IF i - 1 < result.my_slot THEN i - 1 ELSE i][cat_key]]

CatStatsArgs ==
    {<<>>,
     SelectSeq(MixedPool(SmallPool), LAMBDA p : p.player_type = "hitter"),
     SelectSeq(MixedPool(SmallPool), LAMBDA p : p.player_type = "pitcher"),
     [i \in 1..2 |-> [Hitter(1, "C", <<>>) EXCEPT !.mlb_id = 100 + i]],
     MixedPool(SmallPool)}

\* compute_cat_stats, then get_normalized_value of every player of the pool
CatStatsCall ==
    /\ Calling("compute_cat_stats")
    /\ call' = Return(
            Outcome(CatStatsDivisors(call.arg)
                        \cup NormalizedDivisors(compute_cat_stats(call.arg)),
                    [cat_stats |-> compute_cat_stats(call.arg),
                     normalized |-> [i \in DOMAIN call.arg |->
                                        get_normalized_value(call.arg[i],
                                                             compute_cat_stats(call.arg))]]))
    /\ sim' = [pc |-> "returned"]
    /\ UNCHANGED <<players, config, mode, seed, jobs, rng, results, roster>>

\* rosters: fresh, every slot full, only the bench open
ScarcityArgs ==
    {[capacity |-> capacity, player |-> p] :
        capacity \in {RosterInit, [s \in SlotNames |-> 0],
                      [s \in SlotNames |-> IF s = "BE" THEN 1 ELSE 0]},
        p \in RosterPlayers}

ScarcityCall ==
    /\ Calling("slot_scarcity")
    /\ call' = Return(
            Outcome(ScarcityDivisors(call.arg.capacity, call.arg.player),
                    slot_scarcity(call.arg.capacity, call.arg.player)))
    /\ sim' = [pc |-> "returned"]
    /\ UNCHANGED <<players, config, mode, seed, jobs, rng, results, roster>>

\* confidence ramps: the default, zero width, inverted
ConfidenceArgs ==
    {[total_picks_made |-> picks, config |-> LeagueConfig(2, 3, ramp[1], ramp[2])] :
        picks \in 0..SmallPool, ramp \in {<<40, 81>>, <<2, 6>>, <<4, 4>>, <<6, 2>>}}

StandingsConfidenceCall ==
    /\ Calling("standings_confidence")
    /\ call' = Return(
            Outcome(ConfidenceDivisors(call.arg.config),
                    standings_confidence(call.arg.total_picks_made, call.arg.config)))
    /\ sim' = [pc |-> "returned"]
    /\ UNCHANGED <<players, config, mode, seed, jobs, rng, results, roster>>

\* ADP_SIGMA: the default and 0; the switches of the sigma
AvailabilityArgs ==
    {[score |-> 10 * Unit, player |-> MixedPlayer(i), current_pick |-> pick,
      picks_until_mine |-> 2,
      config |-> [DefaultConfig EXCEPT !.ADP_SIGMA = sigma,
                                       !.USE_VARIABLE_SIGMA = variable,
                                       !.USE_WINDOW_VONA = window]] :
        i \in 1..(SmallPool + 1), pick \in 0..TinyPool, sigma \in {0, 18 * Unit},
        variable \in BOOLEAN, window \in BOOLEAN}

\* full_player_score lines 541-545: the availability discount of a score
AvailabilityDiscountCall ==
    /\ Calling("compute_availability")
    /\ call' = Return(
            Outcome(AvailabilityDivisors(call.arg.player, call.arg.config),
                    AvailabilityDiscount(call.arg.score, call.arg.player,
                                         call.arg.current_pick, call.arg.picks_until_mine,
                                         call.arg.config)))
    /\ sim' = [pc |-> "returned"]
    /\ UNCHANGED <<players, config, mode, seed, jobs, rng, results, roster>>

RatioOps ==
    {"compute_cat_stats", "slot_scarcity", "standings_confidence",
     "compute_availability", "win_prob_from_rank", "compute_mcw"}

\* C19: no ratio computation on the scoring path raises a division by zero:
\* the stdev of a constant or empty category is 1, an empty role subset has
\* mean 0, no open starting slot gives scarcity 0, a zero-width or inverted
\* confidence ramp gives a confidence in [0, 1], and the divisions by sigma
\* (compute_availability) and by num_teams - 1 (win probability, MCW credit)
\* yield a value.
C19_NoDivisionByZero ==
    (mode = "scoring" /\ sim.pc = "returned" /\ call.op \in RatioOps) =>
        /\ ~call.ret.raised
        /\ call.op = "compute_cat_stats" =>
               \A k \in CatSet :
                   LET relevant == SelectSeq(call.arg,
                                       LAMBDA p : (p.player_type = "hitter")
                                                  = (k \in Range(HITTING_CAT_KEYS)))
                   IN /\ relevant = <<>> =>
                            /\ call.ret.value.cat_stats[k].mean = 0
                            /\ call.ret.value.cat_stats[k].stdev = Unit
                      /\ Cardinality({ZGet(relevant[i].zscores, k) : i \in DOMAIN relevant}) = 1 =>
                            call.ret.value.cat_stats[k].stdev = Unit
        /\ (call.op = "slot_scarcity" /\ ~has_starting_need(call.arg.capacity, call.arg.player)) =>
               call.ret.value = 0
        /\ call.op = "standings_confidence" =>
               (0 <= call.ret.value /\ call.ret.value <= Unit)


\* ------------------------------------------------------------------------
\* The state update after a pick (simulate_draft lines 167-173)
\* ------------------------------------------------------------------------

\* a step of the loop in which a team drafted a player
PickStep == sim.pc = "loop" /\ sim'.pc = "loop" /\ sim'.last.kind = "pick"

\* what the players a team drafted add up to in a category, each with the
\* weight of the slot it went to
WeightedSum(st, t, cat_key) ==
    SeqSum([i \in DOMAIN st.team_players[t] |->
               Mul(ZGet(PlayerById(st.all_players, st.team_players[t][i]).zscores, cat_key),
                   IF st.team_slots[t][i] = "BE" THEN BENCH_CONTRIBUTION ELSE Unit)])

\* C20: after a pick by team t of player p, p is no longer available, p holds
\* a slot of t's RosterState (an eligible slot that had capacity, now one
\* less), t's total of every category has grown by p's value times the bench
\* multiplier if the slot is the bench and times 1 otherwise, and the totals,
\* rosters and players of every other team are unchanged; at every point a
\* team's total is the weighted sum over the players it drafted.
C20_PickEffect ==
    /\ [](\A t \in Teams(sim) : \A k \in CatSet :
              sim.team_totals[t][k] = WeightedSum(sim, t, k))
    /\ [][PickStep =>
            LET t == sim'.last.team
                p == PlayerById(sim.all_players, sim'.last.mlb_id)
                slot == sim'.last.slot
            IN /\ t = TeamOnTheClock(sim)
               /\ p.mlb_id \in sim.available_set
               /\ sim'.available_set = sim.available_set \ {p.mlb_id}
               /\ sim'.team_players[t] = Append(sim.team_players[t], p.mlb_id)
               /\ slot \in Range(eligible_slots_ordered(p))
               /\ CapGet(sim.rosters[t], slot) > 0
               /\ sim'.rosters[t] = [sim.rosters[t] EXCEPT ![slot] = sim.rosters[t][slot] - 1]
               /\ \A k \in CatSet :
                      sim'.team_totals[t][k] =
                          sim.team_totals[t][k]
                          + Mul(ZGet(p.zscores, k),
                                IF slot = "BE" THEN BENCH_CONTRIBUTION ELSE Unit)
               /\ \A u \in Teams(sim) \ {t} :
                      /\ sim'.team_totals[u] = sim.team_totals[u]
                      /\ sim'.rosters[u] = sim.rosters[u]
                      /\ sim'.team_players[u] = sim.team_players[u]]_vars

\* ------------------------------------------------------------------------
\* The opponents' pick policy (_opponent_pick)
\* ------------------------------------------------------------------------

\* a pass of the loop in which an opponent is on the clock
OpponentOnTheClock ==
    /\ InSchedule(sim)
    /\ sim.available_set # {}
    /\ TeamOnTheClock(sim) # sim.my_slot
    /\ sim'.pc = "loop"
    /\ sim'.pick_idx # sim.pick_idx

\* the noisy ADP of the i-th available player: the i-th draw of the turn
NoisyAdp(st, i) ==
    AdpOr999(AvailPlayers(st)[i])
    + GaussValue(RngAfter(st.rng, i), st.config.ADP_SIGMA)

MyTurnNow(st) == AtTurn(st) /\ TeamOnTheClock(st) = st.my_slot

\* the candidates of the turn: the available players the roster can add
Candidates(st) ==
    SelectSeq(AvailPlayers(st), LAMBDA p : can_add(st.rosters[st.my_slot], p))

\* the best-player-available term of a candidate's score as the engine's
\* call of full_player_score computes it (no replacement_levels passed)
EngineBpa(st, p) == BpaValue(p, CatStatsForPick(st), st.config, NoReplacementLevels)

\* C22: on the simulated team's turn, with USE_SURPLUS_VALUE enabled the
\* best-player-available term of each candidate is its surplus value over the
\* replacement level of its position; with it disabled, the plain normalized
\* value.
C22_SurplusValueUsed ==
    (mode \in Modes /\ MyTurnNow(sim)) =>
        \A i \in DOMAIN Candidates(sim) :
            LET p == Candidates(sim)[i]
                cat_stats == CatStatsForPick(sim)
                nv == get_normalized_value(p, cat_stats)
            IN EngineBpa(sim, p) =
                   IF sim.config.USE_SURPLUS_VALUE
                   THEN compute_surplus_value(
                            p, nv, compute_replacement_levels(AvailPlayers(sim), cat_stats,
                                                              sim.config.NUM_TEAMS))
                   ELSE nv

\* ------------------------------------------------------------------------
\* VONA at a position (_vona_at_position)
\* ------------------------------------------------------------------------

VonaPositionNames == {"C", "1B", "2B", "3B", "SS", "OF", "LF", "DH", "SP", "RP"}

\* the first n players of the mixed pool still available, one of them the
\* candidate, and a position
VonaArgs(n) ==
    {[available |-> MixedPool(n), player |-> MixedPlayer(i), pos |-> pos] :
        i \in 1..n, pos \in VonaPositionNames}

\* _vona_at_position against build_available_by_position of the available
\* players (cat_stats of the same players, as at a round boundary)
VonaAtPositionCall ==
    /\ Calling("vona_at_position")
    /\ call' = Return(
            LET cat_stats == compute_cat_stats(call.arg.available)
                available_by_position ==
                    build_available_by_position(call.arg.available, cat_stats)
            IN [listed |-> PosPlayers(available_by_position, call.arg.pos),
                nv |-> get_normalized_value(call.arg.player, cat_stats),
                vona |-> vona_at_position(call.arg.player.mlb_id, call.arg.pos,
                                          available_by_position)])
    /\ sim' = [pc |-> "returned"]
    /\ UNCHANGED <<players, config, mode, seed, jobs, rng, results, roster>>

\* C23: VONA of a candidate at a position where it is listed is its
\* normalized value minus that of the next-best available player listed
\* there, and 0 when the candidate is the last one listed there.
C23_VonaNextBestOrZero ==
    CallReturned("vona_at_position") =>
        \A i \in DOMAIN call.ret.listed :
            call.ret.listed[i].mlb_id = call.arg.player.mlb_id =>
                call.ret.vona = IF i < Len(call.ret.listed)
                                THEN call.ret.nv - call.ret.listed[i + 1].nv
                                ELSE 0


\* ------------------------------------------------------------------------
\* The bench penalty of pitchers (full_player_score lines 547-556)
\* ------------------------------------------------------------------------

\* the pitchers the simulated team has placed on its bench
BenchPitchers(st) ==
    Cardinality({i \in DOMAIN st.team_players[st.my_slot] :
                    /\ st.team_slots[st.my_slot][i] = "BE"
                    /\ PlayerById(st.all_players, st.team_players[st.my_slot][i]).player_type
                           = "pitcher"})

\* draft_progress of line 524
DraftProgress(st) == Min(Unit, (st.my_pick_count * Unit) \div 25)

\* C24: on the simulated team's turn the bench-pitcher count used by
\* full_player_score is the number of bench-assigned pitchers of the
\* simulated team, so the penalty of a pitcher with no starting need is the
\* one of that count: soft for the first ones, the full floor and rate from
\* 3 bench pitchers on.
C24_BenchPitcherCountUsed ==
    (mode \in Modes /\ MyTurnNow(sim)) =>
        /\ EngineBenchPitcherCount(sim) = BenchPitchers(sim)
        /\ \A i \in DOMAIN Candidates(sim) :
               LET p == Candidates(sim)[i]
               IN (p.player_type = "pitcher"
                     /\ ~has_starting_need(sim.rosters[sim.my_slot], p)) =>
                      BenchPenalty(10 * Unit, p, 0, DraftProgress(sim),
                                   EngineBenchPitcherCount(sim), sim.config)
                          = BenchPenalty(10 * Unit, p, 0, DraftProgress(sim),
                                         BenchPitchers(sim), sim.config)

\* ------------------------------------------------------------------------
\* has_starting_need against add_player
\* ------------------------------------------------------------------------

\* C25: whenever has_starting_need(player) is true of a roster, add_player
\* of that player on that roster returns a non-bench slot; a player goes to
\* the bench only when none of its eligible starting slots has capacity.
C25_StartingNeedMeansStarter ==
    [][call'.op = "add_player" =>
          /\ has_starting_need(roster, call'.arg) => call'.ret \notin {"BE", "None"}
          /\ call'.ret = "BE" =>
                 \A i \in DOMAIN eligible_slots_ordered(call'.arg) :
                     eligible_slots_ordered(call'.arg)[i] # "BE" =>
                         CapGet(roster, eligible_slots_ordered(call'.arg)[i]) = 0]_vars

\* ------------------------------------------------------------------------
\* picks_until_next_turn against the schedule
\* ------------------------------------------------------------------------

\* the later picks of the schedule at which a team is on the clock
LaterTurns(current_pick, team, num_teams, num_rounds) ==
    {i \in (current_pick + 1)..(num_teams * num_rounds - 1) :
        snake_order(i, num_teams) = team}

\* C26: at every pick of the schedule, for the team on the clock,
\* picks_until_next_turn is the distance to that team's next turn inside the
\* schedule of NUM_TEAMS * NUM_ROUNDS picks, and 999 exactly when the team has
\* no further turn in it.
C26_NextTurnInSchedule ==
    (mode = "schedule" /\ sim.pick_idx < config.NUM_TEAMS * config.NUM_ROUNDS) =>
        LET team == snake_order(sim.pick_idx, config.NUM_TEAMS)
            later == LaterTurns(sim.pick_idx, team, config.NUM_TEAMS, config.NUM_ROUNDS)
            d == picks_until_next_turn(sim.pick_idx, team, config.NUM_TEAMS)
        IN IF later = {} THEN d = 999
           ELSE /\ d # 999
                /\ sim.pick_idx + d \in later
                /\ \A i \in later : sim.pick_idx + d <= i

\* ------------------------------------------------------------------------
\* The post-score adjustments (full_player_score lines 541-558)
\* ------------------------------------------------------------------------

\* what simulate_draft computes before it scores the candidates of a turn
\* (lines 89-116)
TurnContext(st) ==
    LET cat_stats == CatStatsForPick(st)
        other_team_totals == OtherTeamTotals(st)
        standings == detect_strategy(
                         analyze_category_standings(st.team_totals[st.my_slot],
                                                    other_team_totals, st.config.NUM_TEAMS),
                         st.my_pick_count, st.config.NUM_TEAMS, st.config.PLAYOFF_SPOTS)
    IN [cat_stats |-> cat_stats,
        available_by_position |-> build_available_by_position(AvailPlayers(st), cat_stats),
        other_team_totals |-> other_team_totals,
        strategies |-> Tabled([cat_key \in CatSet |->
                                  standings[CHOOSE i \in DOMAIN standings :
                                                standings[i].cat_key = cat_key].strategy]),
        pum |-> picks_until_next_turn(st.pick_idx, st.my_slot, st.config.NUM_TEAMS)]

HasNeed(st, p) == IF has_starting_need(st.rosters[st.my_slot], p) THEN Unit ELSE 0

\* the score of a candidate of the turn before the adjustments, after the
\* availability discount, and after the bench penalty (the score returned)
AdjustedScores(st, ctx, p) ==
    LET blended == BlendedScore(p, st.team_totals[st.my_slot], ctx.other_team_totals,
                                ctx.strategies, ctx.cat_stats, ctx.available_by_position,
                                HasNeed(st, p), st.pick_idx, ctx.pum, st.pick_idx,
                                st.my_pick_count, st.config, NoReplacementLevels)
        discounted == AvailabilityDiscount(blended, p, st.pick_idx, ctx.pum, st.config)
    IN [blended |-> blended,
        discounted |-> discounted,
        penalized |-> BenchPenalty(discounted, p, HasNeed(st, p), DraftProgress(st),
                                   EngineBenchPitcherCount(st), st.config)]

\* C27: for every candidate of a turn of the simulated team the score after
\* the availability discount is at most the score before it, the score after
\* the bench penalty is at most the score before it, negative scores
\* included, and a candidate with no starting need that was below another
\* candidate before the penalty is not above it after.
C27_AdjustmentsNeverRaise ==
    (mode \in Modes /\ MyTurnNow(sim)) =>
        LET ctx == TurnContext(sim)
            scores == Tabled([i \in DOMAIN Candidates(sim) |->
                                 AdjustedScores(sim, ctx, Candidates(sim)[i])])
        IN \A i \in DOMAIN scores :
               /\ scores[i].discounted <= scores[i].blended
               /\ scores[i].penalized <= scores[i].discounted
               /\ HasNeed(sim, Candidates(sim)[i]) = 0 =>
                      \A j \in DOMAIN scores :
                          scores[i].discounted < scores[j].discounted =>
                              scores[i].penalized <= scores[j].penalized

\* ------------------------------------------------------------------------
\* simulate_draft then evaluate_draft (simulate_draft.py lines 54-55)
\* ------------------------------------------------------------------------

\* the attributes of its argument that evaluate_draft reads (evaluate.py
\* lines 15, 21, 31-36, 47-49)
EvaluateReads ==
    {"my_slot", "my_players", "all_team_totals",
     "bench_pitcher_count", "sp_count", "rp_count"}

\* evaluate_draft of a result: AttributeError when an attribute it reads is
\* not on the result, its summary otherwise
EvaluateOutcome(result, num_teams) ==
    IF EvaluateReads \subseteq DOMAIN result
    THEN [raised |-> FALSE, value |-> evaluate_draft(result, num_teams)]
    ELSE [raised |-> TRUE]

\* C28: every DraftResult simulate_draft returns carries every attribute
\* evaluate_draft reads, so evaluate_draft of it yields a summary and does
\* not raise.
C28_EvaluateAcceptsResult ==
    (mode \in Modes /\ sim.pc = "returned") =>
        /\ EvaluateReads \subseteq DOMAIN DraftResult(sim)
        /\ ~EvaluateOutcome(DraftResult(sim), sim.config.NUM_TEAMS).raised

\* ------------------------------------------------------------------------
\* The bench multiplier and the configuration (simulate_draft line 170)
\* ------------------------------------------------------------------------

\* the bench knob of the configuration for a player's type
BenchKnob(cfg, p) ==
    IF p.player_type = "pitcher" THEN cfg.PITCHER_BENCH_CONTRIBUTION
    ELSE cfg.HITTER_BENCH_CONTRIBUTION

\* a configuration that differs from cfg in the two bench knobs only
OtherBenchKnobs(cfg) ==
    [cfg EXCEPT !.PITCHER_BENCH_CONTRIBUTION = cfg.PITCHER_BENCH_CONTRIBUTION + 10,
                !.HITTER_BENCH_CONTRIBUTION = cfg.HITTER_BENCH_CONTRIBUTION + 10]

\* C29: a player assigned to the bench enters its team's totals with the
\* multiplier of the run's configuration, PITCHER_BENCH_CONTRIBUTION for a
\* pitcher and HITTER_BENCH_CONTRIBUTION for a hitter, and with another
\* multiplier under a configuration that differs in these knobs.
C29_BenchWeightFromConfig ==
    [][(PickStep /\ sim'.last.slot = "BE") =>
          LET t == sim'.last.team
              p == PlayerById(sim.all_players, sim'.last.mlb_id)
          IN /\ \A k \in CatSet :
                    sim'.team_totals[t][k] =
                        sim.team_totals[t][k]
                        + Mul(ZGet(p.zscores, k), BenchKnob(sim.config, p))
             /\ PickWeight("BE", p, sim.config)
                    # PickWeight("BE", p, OtherBenchKnobs(sim.config))]_vars

\* ------------------------------------------------------------------------
\* compute_mcw in the candidate's value
\* ------------------------------------------------------------------------

\* positive values of the candidate in VariedCat: closing half of a gap of
\* 1.0, nearly all of it, all of it (a tie), and more (a pass)
MonotoneValues == {Unit \div 2, (98 * Unit) \div 100, Unit, 2 * Unit}

\* two candidates that differ in their value in VariedCat only, against the
\* same totals, rivals and tags
McwPairArgs(n) ==
    UNION {{[lower |-> McwArgsOf(n, mine, field, v1, FALSE, tag,
                                 [player |-> 0, strategy |-> "neutral"], <<Unit, Unit>>),
             higher |-> McwArgsOf(n, mine, field, v2, FALSE, tag,
                                  [player |-> 0, strategy |-> "neutral"], <<Unit, Unit>>)] :
               mine \in RankValues, v2 \in {v \in MonotoneValues : v > v1},
               tag \in StrategyTags, field \in SortedFields(n - 1)} :
           v1 \in MonotoneValues}

\* compute_mcw of the two candidates
ComputeMcwPairCall ==
    /\ Calling("compute_mcw_pair")
    /\ call' = Return(
            [lower |-> compute_mcw(call.arg.lower.player_zscores, call.arg.lower.my_totals,
                                   call.arg.lower.other_team_totals,
                                   call.arg.lower.strategies, call.arg.lower.num_teams,
                                   call.arg.lower.config),
             higher |-> compute_mcw(call.arg.higher.player_zscores, call.arg.higher.my_totals,
                                    call.arg.higher.other_team_totals,
                                    call.arg.higher.strategies, call.arg.higher.num_teams,
                                    call.arg.higher.config)])
    /\ sim' = [pc |-> "returned"]
    /\ UNCHANGED <<players, config, mode, seed, jobs, rng, results, roster>>

\* C30: for fixed totals, rival totals and strategy tags, compute_mcw of the
\* candidate with the larger positive value in a category is at least
\* compute_mcw of the candidate with the smaller one: the credit for closing
\* part of a gap does not exceed the credit for tying or passing the team
\* above.
C30_McwMonotone ==
    CallReturned("compute_mcw_pair") => call.ret.lower <= call.ret.higher

\* the calls of the scoring functions, each with its arguments drawn first
ScoringStart ==
    \/ \E n \in 2..MaxStandTeams :
           \E arg \in StandingsArgs(n) : Pending("detect_strategy", arg)
    \/ \E n \in 0..MaxField :
           \E arg \in RankArgs(n) : Pending("compute_rank", arg)
    \/ \E n \in 1..(MaxField + 1) :
           \E arg \in WinProbArgs(n) : Pending("win_prob_from_rank", arg)
    \/ \E n \in 1..(MaxField + 1) :
           \E arg \in McwArgsFor(n) : Pending("compute_mcw", arg)
    \/ \E n \in 2..MaxStandTeams :
           \E arg \in EvalArgsFor(n) : Pending("evaluate_draft", arg)
    \/ \E arg \in CatStatsArgs : Pending("compute_cat_stats", arg)
    \/ \E arg \in ScarcityArgs : Pending("slot_scarcity", arg)
    \/ \E arg \in ConfidenceArgs : Pending("standings_confidence", arg)
    \/ \E arg \in AvailabilityArgs : Pending("compute_availability", arg)
    \/ \E n \in 1..(SmallPool + 1) :
           \E arg \in VonaArgs(n) : Pending("vona_at_position", arg)
    \/ \E n \in 2..(MaxField + 1) :
           \E arg \in McwPairArgs(n) : Pending("compute_mcw_pair", arg)

ScoringNext ==
    \/ DetectStrategyCall
    \/ ComputeRankCall
    \/ WinProbCall
    \/ ComputeMcwCall
    \/ EvaluateDraftCall
    \/ CatStatsCall
    \/ ScarcityCall
    \/ StandingsConfidenceCall
    \/ AvailabilityDiscountCall
    \/ VonaAtPositionCall
    \/ ComputeMcwPairCall

ScoringSpec == ScoringStart /\ [][ScoringNext]_vars

====
